---- MODULE Spec2Model ----
(***************************************************************************)
(* TradeMaster.AI: the client-side aggregation code of the trading journal *)
(* (Dashboard statistics and calendar, position sizing calculator, trade   *)
(* form), modelled from the TypeScript sources.                            *)
(*                                                                         *)
(* Conventions of the model                                                *)
(*  - A JavaScript number is an exact decimal.  The amounts and prices of a *)
(*    trade are integers counting thousandths (Rs(100) is 100.000), those  *)
(*    of the calculator are whole numbers; quotients that need not be      *)
(*    integers (winRate, avgWin, avgLoss, profitFactor, riskAmount) are    *)
(*    fractions [num, den] with den > 0.  Binary floating point rounding   *)
(*    is not modelled.                                                     *)
(*  - An optional field (pnl?: number) is <<>> when undefined and <<v>>    *)
(*    when it holds v.                                                     *)
(*  - A string that the code inspects (entryDate, id, the calendar's       *)
(*    dateStr) is a sequence of one-character strings.                     *)
(***************************************************************************)
EXTENDS Integers, Sequences, FiniteSets, TLC

VARIABLES
    trades,          \* App.tsx: const [trades, setTrades], the Dashboard's prop
    stats,           \* Dashboard.tsx: the memoised DashboardStats
    dailyNotes,      \* App.tsx: const [dailyNotes, setDailyNotes]
    currentDateView, \* Dashboard.tsx: the calendar's month, a local Date
    calendarData,    \* Dashboard.tsx: the memoised calendar
    capital, riskPercent, entryPrice, stopLoss, instrument, \* PositionCalculator.tsx state
    results,         \* PositionCalculator.tsx: the memoised results
    formData,        \* TradeForm.tsx: const [formData, setFormData]
    formOpen,        \* App.tsx: isFormOpen (the TradeForm is mounted)
    aiModalOpen, isAnalyzing, aiAnalysis, \* App.tsx lines 56-58: the AI Analysis Modal
    aiCalls,         \* the calls of analyzeTradeWithAI that handleAnalyzeTrade awaits
    editingTrade,    \* App.tsx: const [editingTrade, setEditingTrade]
    authUser,        \* the store's answer to supabase.auth.getUser()
    dbTrades,        \* the store's table trades, rows in the order of their upserts
    dbNotes,         \* the store's table daily_notes
    dbCalls,         \* the calls of the store service that are under way or settled
    tzOffset,        \* the browser's time zone: minutes that local time is ahead of UTC
    serviceCopy,     \* which of the two copies of the store service the build bundles
    equityCurveData, \* Dashboard.tsx: the memoised equity curve
    monthlyChartData \* Dashboard.tsx: the memoised monthly aggregation

dashVars == <<trades, stats>>
calVars  == <<dailyNotes, currentDateView, calendarData>>
calcVars == <<capital, riskPercent, entryPrice, stopLoss, instrument, results>>
formVars == <<formData, formOpen>>
aiVars   == <<aiModalOpen, isAnalyzing, aiAnalysis, aiCalls>>
storeVars == <<editingTrade, authUser, dbTrades, dbNotes, dbCalls>>
envVars  == <<tzOffset, serviceCopy>>
chartVars == <<envVars, equityCurveData, monthlyChartData>>
appVars  == <<aiVars, storeVars, chartVars>>
vars     == <<trades, stats, dailyNotes, currentDateView, calendarData,
              capital, riskPercent, entryPrice, stopLoss, instrument, results,
              formData, formOpen, aiModalOpen, isAnalyzing, aiAnalysis, aiCalls,
              editingTrade, authUser, dbTrades, dbNotes, dbCalls,
              tzOffset, serviceCopy, equityCurveData, monthlyChartData>>

----------------------------------------------------------------------------
(* Numbers, optional values, strings *)

Rs(n) == n * 1000

Undefined == <<>>
Some(v) == <<v>>
IsDefined(o) == o # <<>>
\* (x || 0) for an optional number: undefined and 0 both give 0
OrZero(o) == IF o = <<>> THEN 0 ELSE o[1]

Abs(x) == IF x < 0 THEN -x ELSE x
Max(a, b) == IF a >= b THEN a ELSE b

Frac(n, d) == [num |-> n, den |-> d]
FracInt(n) == [num |-> n, den |-> 1]
FracEq(a, b) == a.num * b.den = b.num * a.den
FracLeq(a, b) == a.num * b.den <= b.num * a.den

Digits == <<"0", "1", "2", "3", "4", "5", "6", "7", "8", "9">>
DigitVal(c) == CHOOSE d \in 0..9 : Digits[d + 1] = c
IsDigit(c) == \E d \in 0..9 : Digits[d + 1] = c

\* String(n) for an integer n >= 0
RECURSIVE NatToStr(_)
NatToStr(n) == IF n < 10 THEN <<Digits[n + 1]>>
               ELSE NatToStr(n \div 10) \o <<Digits[(n % 10) + 1]>>

\* s.padStart(2, '0')
PadStart2(s) == IF Len(s) >= 2 THEN s ELSE <<"0">> \o s

\* s.startsWith(p)
StartsWith(s, p) == Len(p) <= Len(s) /\ SubSeq(s, 1, Len(p)) = p

\* the number written by the two digits s[i], s[i+1]
TwoDigits(s, i) == DigitVal(s[i]) * 10 + DigitVal(s[i + 1])

----------------------------------------------------------------------------
(* Dates *)

\* days from 1970-01-01 to the civil date y-m-d (m in 1..12)
DaysFromCivil(y, m, d) ==
    LET yy  == IF m <= 2 THEN y - 1 ELSE y
        era == yy \div 400
        yoe == yy - era * 400
        mp  == IF m > 2 THEN m - 3 ELSE m + 9
        doy == (153 * mp + 2) \div 5 + d - 1
        doe == yoe * 365 + yoe \div 4 - yoe \div 100 + doy
    IN  era * 146097 + doe - 719468

\* new Date(str).getTime() for "YYYY-MM-DD" and "YYYY-MM-DDTHH:mm:ssZ" (both UTC),
\* counted in seconds
GetTime(str) ==
    LET y   == TwoDigits(str, 1) * 100 + TwoDigits(str, 3)
        m   == TwoDigits(str, 6)
        d   == TwoDigits(str, 9)
        sec == IF Len(str) > 10
               THEN TwoDigits(str, 12) * 3600 + TwoDigits(str, 15) * 60
                    + TwoDigits(str, 18)
               ELSE 0
    IN  DaysFromCivil(y, m, d) * 86400 + sec

\* the civil date, days after 1970-01-01
CivilFromDays(days) ==
    LET z   == days + 719468
        era == z \div 146097
        doe == z - era * 146097
        yoe == (doe - doe \div 1460 + doe \div 36524 - doe \div 146096) \div 365
        doy == doe - (365 * yoe + yoe \div 4 - yoe \div 100)
        mp  == (5 * doy + 2) \div 153
        d   == doy - (153 * mp + 2) \div 5 + 1
        m   == IF mp < 10 THEN mp + 3 ELSE mp - 9
        y   == yoe + era * 400 + (IF m <= 2 THEN 1 ELSE 0)
    IN  [year |-> y, month |-> m, day |-> d]

\* getFullYear(), getMonth() + 1 and getDate() of new Date(str): the civil date of
\* the instant in a time zone tz minutes ahead of UTC
LocalDate(str, tz) == CivilFromDays((GetTime(str) + tz * 60) \div 86400)

\* the written date of str: its year, month and day in UTC
WrittenDate(str) ==
    [year |-> TwoDigits(str, 1) * 100 + TwoDigits(str, 3),
     month |-> TwoDigits(str, 6), day |-> TwoDigits(str, 9)]

----------------------------------------------------------------------------
(* types.ts *)

LONG == "LONG"
SHORT == "SHORT"
OPEN == "OPEN"
CLOSED == "CLOSED"
PENDING == "PENDING"
TradeTypes == {LONG, SHORT}
TradeStatuses == {OPEN, CLOSED, PENDING}

Trade(id, type, status, entryDate, entry, exit, qty, pnl) ==
    [id |-> id, type |-> type, status |-> status, entryDate |-> entryDate,
     entryPrice |-> entry, exitPrice |-> exit, quantity |-> qty, pnl |-> pnl,
     stopLoss |-> Undefined, takeProfit |-> Undefined]

\* a trade with a stop loss and a target (lines 22-23)
WithStops(trade, stop, target) ==
    [trade EXCEPT !.stopLoss = stop, !.takeProfit = target]

----------------------------------------------------------------------------
(* Dashboard.tsx: the Statistics Engine (stats, lines 48-108) *)

\* a.localeCompare(b) on identifiers written with "-", digits and a-f:
\* character by character, a proper prefix first
Alphabet == <<"-", "0", "1", "2", "3", "4", "5", "6", "7", "8", "9",
              "a", "b", "c", "d", "e", "f">>
CharRank(c) == CHOOSE i \in 1..Len(Alphabet) : Alphabet[i] = c
RECURSIVE LocaleCompare(_, _)
LocaleCompare(a, b) ==
    IF a = <<>> /\ b = <<>> THEN 0
    ELSE IF a = <<>> THEN -1
    ELSE IF b = <<>> THEN 1
    ELSE IF CharRank(a[1]) # CharRank(b[1]) THEN CharRank(a[1]) - CharRank(b[1])
    ELSE LocaleCompare(Tail(a), Tail(b))

\* mutant: the comparator without its tie-break on the id
StatsCompareDateOnly(a, b) == GetTime(a.entryDate) - GetTime(b.entryDate)

\* the comparator of lines 52-56
StatsCompare(a, b) ==
    LET dateDiff == GetTime(a.entryDate) - GetTime(b.entryDate)
    IN  IF dateDiff # 0 THEN dateDiff ELSE LocaleCompare(a.id, b.id)

\* Array.prototype.sort with the comparator of lines 52-56: a stable sort
RECURSIVE InsertByStatsCompare(_, _)
InsertByStatsCompare(x, sorted) ==
    IF sorted = <<>> THEN <<x>>
    ELSE LET n == Len(sorted)
         IN  IF StatsCompare(sorted[n], x) <= 0 THEN Append(sorted, x)
             ELSE Append(InsertByStatsCompare(x, SubSeq(sorted, 1, n - 1)), sorted[n])
RECURSIVE SortByStatsCompare(_)
SortByStatsCompare(s) ==
    IF s = <<>> THEN <<>>
    ELSE InsertByStatsCompare(s[Len(s)], SortByStatsCompare(SubSeq(s, 1, Len(s) - 1)))

\* mutant: the filter forgets the status test
ClosedTradesAnyStatus(ts) ==
    SortByStatsCompare(SelectSeq(ts, LAMBDA t : IsDefined(t.pnl)))

\* mutant: the filter forgets the pnl test
ClosedTradesAnyPnl(ts) ==
    SortByStatsCompare(SelectSeq(ts, LAMBDA t : t.status = CLOSED))

\* lines 50-56
ClosedTrades(ts) ==
    SortByStatsCompare(SelectSeq(ts, LAMBDA t : t.status = CLOSED /\ IsDefined(t.pnl)))

\* mutant: a pnl of 0 passes the filter of the wins
IsWinOrZero(t) == OrZero(t.pnl) >= 0

\* lines 59-60
IsWin(t) == OrZero(t.pnl) > 0
IsLoss(t) == OrZero(t.pnl) <= 0

\* reduce((acc, t) => acc + (t.pnl || 0), 0)
RECURSIVE SumPnl(_)
SumPnl(s) == IF s = <<>> THEN 0
             ELSE SumPnl(SubSeq(s, 1, Len(s) - 1)) + OrZero(s[Len(s)].pnl)

\* mutant: the maximum is taken before the counter is incremented
StreakStepLateMax(st, trade) ==
    LET pnl == OrZero(trade.pnl)
    IN  IF pnl > 0
        THEN [currentWinStreakCounter |-> st.currentWinStreakCounter + 1,
              maxWinStreak |-> Max(st.maxWinStreak, st.currentWinStreakCounter),
              currentStreak |-> IF st.currentStreak >= 0
                                THEN st.currentStreak + 1 ELSE 1]
        ELSE [currentWinStreakCounter |-> 0,
              maxWinStreak |-> st.maxWinStreak,
              currentStreak |-> IF st.currentStreak <= 0
                                THEN st.currentStreak - 1 ELSE -1]

\* mutant: a loss does not reset the counter of consecutive wins
StreakStepNoReset(st, trade) ==
    LET pnl == OrZero(trade.pnl)
    IN  IF pnl > 0
        THEN LET counter == st.currentWinStreakCounter + 1
             IN  [currentWinStreakCounter |-> counter,
                  maxWinStreak |-> Max(st.maxWinStreak, counter),
                  currentStreak |-> IF st.currentStreak >= 0
                                    THEN st.currentStreak + 1 ELSE 1]
        ELSE [currentWinStreakCounter |-> st.currentWinStreakCounter,
              maxWinStreak |-> st.maxWinStreak,
              currentStreak |-> IF st.currentStreak <= 0
                                THEN st.currentStreak - 1 ELSE -1]

\* one iteration of the streak loop, lines 76-96
StreakStep(st, trade) ==
    LET pnl == OrZero(trade.pnl)
    IN  IF pnl > 0
        THEN LET counter == st.currentWinStreakCounter + 1
             IN  [currentWinStreakCounter |-> counter,
                  maxWinStreak |-> Max(st.maxWinStreak, counter),
                  currentStreak |-> IF st.currentStreak >= 0
                                    THEN st.currentStreak + 1 ELSE 1]
        ELSE [currentWinStreakCounter |-> 0,
              maxWinStreak |-> st.maxWinStreak,
              currentStreak |-> IF st.currentStreak <= 0
                                THEN st.currentStreak - 1 ELSE -1]

\* the streak loop over the first n sorted trades, lines 72-96
RECURSIVE StreakScan(_, _)
StreakScan(s, n) ==
    IF n = 0
    THEN [currentWinStreakCounter |-> 0, maxWinStreak |-> 0, currentStreak |-> 0]
    ELSE StreakStep(StreakScan(s, n - 1), s[n])

\* mutant: the ratio is not scaled to a percentage
WinRateUnscaled(winCount, totalTrades) ==
    IF totalTrades > 0 THEN Frac(winCount, totalTrades) ELSE FracInt(0)

\* line 66
WinRate(winCount, totalTrades) ==
    IF totalTrades > 0 THEN Frac(winCount * 100, totalTrades) ELSE FracInt(0)

\* lines 67-68: total / count, 0 when the count is 0
Average(total, count) == IF count > 0 THEN Frac(total, count) ELSE FracInt(0)

\* mutant: no sentinel when nothing was lost
ProfitFactorNoSentinel(totalWinPnl, totalLossPnl) ==
    IF totalLossPnl > 0 THEN Frac(totalWinPnl, totalLossPnl) ELSE FracInt(0)

\* line 69
ProfitFactor(totalWinPnl, totalLossPnl) ==
    IF totalLossPnl > 0 THEN Frac(totalWinPnl, totalLossPnl)
    ELSE IF totalWinPnl > 0 THEN FracInt(999) ELSE FracInt(0)

\* lines 48-108
DashboardStats(ts) ==
    LET closedTrades == ClosedTrades(ts)
        totalTrades  == Len(closedTrades)
        wins         == SelectSeq(closedTrades, IsWin)
        losses       == SelectSeq(closedTrades, IsLoss)
        totalWinPnl  == SumPnl(wins)
        totalLossPnl == Abs(SumPnl(losses))
        streak       == StreakScan(closedTrades, totalTrades)
    IN  [totalTrades   |-> totalTrades,
         winRate       |-> WinRate(Len(wins), totalTrades),
         netPnL        |-> totalWinPnl - totalLossPnl,
         avgWin        |-> Average(totalWinPnl, Len(wins)),
         avgLoss       |-> Average(totalLossPnl, Len(losses)),
         profitFactor  |-> ProfitFactor(totalWinPnl, totalLossPnl),
         maxWinStreak  |-> streak.maxWinStreak,
         currentStreak |-> streak.currentStreak]

----------------------------------------------------------------------------
(* Dashboard.tsx: the Equity Projector (equityCurveData, lines 110-125) and the *)
(* monthly aggregation (monthlyChartData, lines 127-149)                       *)

MonthShort == <<"Jan", "Feb", "Mar", "Apr", "May", "Jun", "Jul", "Aug", "Sep",
                "Oct", "Nov", "Dec">>

\* mutant: the closed trades in the order of the collection
KeepInputOrder(s) == s

\* sort((a, b) => new Date(a.entryDate).getTime() - new Date(b.entryDate).getTime()),
\* a stable sort (line 115)
RECURSIVE InsertByEntryDate(_, _)
InsertByEntryDate(x, sorted) ==
    IF sorted = <<>> THEN <<x>>
    ELSE LET n == Len(sorted)
         IN  IF GetTime(sorted[n].entryDate) - GetTime(x.entryDate) <= 0
             THEN Append(sorted, x)
             ELSE Append(InsertByEntryDate(x, SubSeq(sorted, 1, n - 1)), sorted[n])
RECURSIVE SortByEntryDateFrom(_)
SortByEntryDateFrom(s) ==
    IF s = <<>> THEN <<>>
    ELSE InsertByEntryDate(s[Len(s)], SortByEntryDateFrom(SubSeq(s, 1, Len(s) - 1)))
SortByEntryDate(s) == SortByEntryDateFrom(s)

\* toLocaleDateString(undefined, { month: 'short', day: 'numeric' }), line 120
ShortDate(str, tz) ==
    [month |-> MonthShort[LocalDate(str, tz).month], day |-> LocalDate(str, tz).day]

\* runningBalance = (t.pnl || 0): the balance is overwritten, not added to
RunningBalanceLastOnly(sorted, n) ==
    IF n = 0 THEN 0 ELSE OrZero(sorted[n].pnl)

\* runningBalance after the first n sorted trades, line 118
RECURSIVE RunningBalance(_, _)
RunningBalance(sorted, n) ==
    IF n = 0 THEN 0 ELSE RunningBalance(sorted, n - 1) + OrZero(sorted[n].pnl)

\* lines 110-125
EquityCurveData(ts, tz) ==
    LET sortedTrades == SortByEntryDate(SelectSeq(ts, LAMBDA t : t.status = CLOSED))
    IN  [i \in 1..Len(sortedTrades) |->
            [date |-> ShortDate(sortedTrades[i].entryDate, tz),
             equity |-> RunningBalance(sortedTrades, i),
             pnl |-> sortedTrades[i].pnl]]

\* line 135: the key YYYY-MM of the local month of the entry date
MonthKey(str, tz) ==
    NatToStr(LocalDate(str, tz).year) \o <<"-">>
        \o PadStart2(NatToStr(LocalDate(str, tz).month))

\* lines 130-137: the object data after the first n closed trades, its entries in
\* the order in which their keys were first written
RECURSIVE MonthlyData(_, _, _)
MonthlyData(closed, n, tz) ==
    IF n = 0 THEN <<>>
    ELSE LET data == MonthlyData(closed, n - 1, tz)
             key  == MonthKey(closed[n].entryDate, tz)
             pnl  == OrZero(closed[n].pnl)
         IN  IF \E i \in 1..Len(data) : data[i].key = key
             THEN [i \in 1..Len(data) |->
                      IF data[i].key = key
                      THEN [key |-> key, pnl |-> data[i].pnl + pnl] ELSE data[i]]
             ELSE Append(data, [key |-> key, pnl |-> 0 + pnl])

\* sort(([keyA], [keyB]) => keyA.localeCompare(keyB)), line 140
RECURSIVE InsertByKey(_, _)
InsertByKey(x, sorted) ==
    IF sorted = <<>> THEN <<x>>
    ELSE LET n == Len(sorted)
         IN  IF LocaleCompare(sorted[n].key, x.key) <= 0 THEN Append(sorted, x)
             ELSE Append(InsertByKey(x, SubSeq(sorted, 1, n - 1)), sorted[n])
RECURSIVE SortByKey(_)
SortByKey(s) ==
    IF s = <<>> THEN <<>>
    ELSE InsertByKey(s[Len(s)], SortByKey(SubSeq(s, 1, Len(s) - 1)))

\* parseInt(year) of the key's part before the "-"
ParseKeyYear(key) == TwoDigits(key, 1) * 100 + TwoDigits(key, 3)

\* toLocaleString('default', { month: 'short', year: '2-digit' }) of the first day
\* of a month
MonthLabel(year, month) == [month |-> MonthShort[month], year2 |-> year % 100]

\* lines 141-148: key.split('-'), parseInt and the name of new Date(year, month - 1)
MonthEntry(entry) ==
    LET year  == ParseKeyYear(entry.key)
        month == TwoDigits(entry.key, Len(entry.key) - 1)
    IN  [name |-> MonthLabel(year, month), pnl |-> entry.pnl]

\* lines 127-149
MonthlyChartData(ts, tz) ==
    LET closed  == SelectSeq(ts, LAMBDA t : t.status = CLOSED)
        entries == SortByKey(MonthlyData(closed, Len(closed), tz))
    IN  [i \in 1..Len(entries) |-> MonthEntry(entries[i])]

----------------------------------------------------------------------------
(* App.tsx: the updates of the trade collection that reach the Dashboard *)

\* setTrades(prev => [trade, ...prev]), line 207
PrependTrade(prev, trade) == <<trade>> \o prev

\* setTrades(prev => prev.map(t => t.id === trade.id ? trade : t)), line 205
ReplaceTrade(prev, trade) ==
    [i \in 1..Len(prev) |-> IF prev[i].id = trade.id THEN trade ELSE prev[i]]

\* setTrades(prev => prev.filter(t => t.id !== id)), line 225
RemoveTrade(prev, id) == SelectSeq(prev, LAMBDA t : t.id # id)

IdsOf(ts) == {ts[i].id : i \in 1..Len(ts)}

----------------------------------------------------------------------------
(* Dashboard.tsx: the Calendar Aggregator (calendarData, lines 162-198) *)

\* a local Date made by new Date(year, month0, 1) with month0 in -1..12
FirstOfMonth(year, month0) ==
    [year |-> year + (IF month0 < 0 THEN -1 ELSE IF month0 > 11 THEN 1 ELSE 0),
     month |-> (month0 + 12) % 12,
     date |-> 1]

\* new Date(year, month0, 1).getDay(): 0 is Sunday (1970-01-01 was a Thursday)
GetDay(year, month0) == (DaysFromCivil(year, month0 + 1, 1) + 4) % 7

\* new Date(year, month0 + 1, 0).getDate(): the day before the first of next month
DaysInMonth(year, month0) ==
    LET next == FirstOfMonth(year, month0 + 1)
    IN  DaysFromCivil(next.year, next.month + 1, 1) - DaysFromCivil(year, month0 + 1, 1)

MonthNames == <<"January", "February", "March", "April", "May", "June", "July",
                "August", "September", "October", "November", "December">>

\* mutant: the month and day are not padded to two digits
DateStrUnpadded(year, month0, day) ==
    NatToStr(year) \o <<"-">> \o NatToStr(month0 + 1) \o <<"-">> \o NatToStr(day)

\* line 178
DateStr(year, month0, day) ==
    NatToStr(year) \o <<"-">> \o PadStart2(NatToStr(month0 + 1)) \o <<"-">>
        \o PadStart2(NatToStr(day))

\* lines 177-195: the cell of day i
DayCell(ts, notes, year, month0, i) ==
    LET dateStr   == DateStr(year, month0, i)
        dayTrades == SelectSeq(ts, LAMBDA t : StartsWith(t.entryDate, dateStr)
                                              /\ t.status = CLOSED)
    IN  [day |-> Some(i), dateStr |-> dateStr, pnl |-> SumPnl(dayTrades),
         hasTrades |-> Len(dayTrades) > 0,
         hasNote |-> \E k \in 1..Len(notes) : notes[k].date = dateStr]

\* lines 162-198
CalendarData(ts, notes, view) ==
    LET year           == view.year
        month          == view.month
        daysInMonth    == DaysInMonth(year, month)
        firstDayOfWeek == GetDay(year, month)
    IN  [year |-> year, month |-> month,
         days |-> [k \in 1..firstDayOfWeek |-> [day |-> Undefined]]
                  \o [i \in 1..daysInMonth |-> DayCell(ts, notes, year, month, i)],
         monthName |-> MonthNames[month + 1]]

\* new Date(prev.getFullYear(), prev.getMonth() + delta, prev.getDate()): the day
\* of the view is kept, and a day that the month does not have runs into the next
ChangeMonthKeepDay(prev, delta) ==
    LET target == FirstOfMonth(prev.year, prev.month + delta)
        days   == DaysInMonth(target.year, target.month)
    IN  IF prev.date <= days
        THEN [target EXCEPT !.date = prev.date]
        ELSE [FirstOfMonth(target.year, target.month + 1) EXCEPT !.date = prev.date - days]

\* lines 200-202
ChangeMonth(prev, delta) == FirstOfMonth(prev.year, prev.month + delta)

----------------------------------------------------------------------------
(* PositionCalculator.tsx *)

\* lines 4-11
Instruments == {"NIFTY", "BANKNIFTY", "FINNIFTY", "MIDCPNIFTY", "SENSEX", "EQUITY"}
INDICES_LOT_SIZES(key) ==
    CASE key = "NIFTY" -> 75
      [] key = "BANKNIFTY" -> 15
      [] key = "FINNIFTY" -> 25
      [] key = "MIDCPNIFTY" -> 50
      [] key = "SENSEX" -> 10
      [] key = "EQUITY" -> 1

\* mutant: an entry price of 0 passes the guard
SizingGuardZeroEntry(entry, stop) == entry >= 0 /\ stop > 0

\* mutant: the stop-loss price is not tested
SizingGuardAnyStop(entry, stop) == entry > 0

\* line 29
SizingGuard(entry, stop) == entry > 0 /\ stop > 0

\* line 32: Math.floor(riskAmount / slPoints), riskAmount a fraction, slPoints > 0
RawQuantity(riskAmount, slPoints) == riskAmount.num \div (riskAmount.den * slPoints)

\* mutant: the lots are rounded up
LotAdjustCeiling(qty, lotSize) ==
    IF lotSize > 1
    THEN LET lots == -((-qty) \div lotSize)
         IN  [lots |-> lots, qty |-> lots * lotSize]
    ELSE [lots |-> qty, qty |-> qty]

\* lines 35-41
LotAdjust(qty, lotSize) ==
    IF lotSize > 1
    THEN LET lots == qty \div lotSize
         IN  [lots |-> lots, qty |-> lots * lotSize]
    ELSE [lots |-> qty, qty |-> qty]

\* lines 21-54
Results(cap, risk, entry, stop, instr) ==
    LET riskAmount == Frac(cap * risk, 100)
        zero == [riskAmount |-> riskAmount, slPoints |-> 0, qty |-> 0, lots |-> 0,
                 totalValue |-> 0]
    IN  IF SizingGuard(entry, stop)
        THEN LET slPoints == Abs(entry - stop)
             IN  IF slPoints > 0
                 THEN LET adj == LotAdjust(RawQuantity(riskAmount, slPoints),
                                           INDICES_LOT_SIZES(instr))
                      IN  [riskAmount |-> riskAmount, slPoints |-> slPoints,
                           qty |-> adj.qty, lots |-> adj.lots,
                           totalValue |-> adj.qty * entry]
                 ELSE [zero EXCEPT !.slPoints = slPoints]
        ELSE zero

\* what the number inputs of the calculator are given (parseFloat(value) || 0)
\* (whole numbers here)
Capitals == {-100000, 0, 1000, 100000}
RiskPercents == {-1, 0, 2}
EntryPrices == {-100, 0, 100, 19900, 20000}
StopLosses == {-100, 0, 90, 93, 100, 19900}

\* lines 14-18
CalcInit ==
    /\ capital = 100000
    /\ riskPercent = 2
    /\ entryPrice = 0
    /\ stopLoss = 0
    /\ instrument = "NIFTY"
    /\ results = Results(100000, 2, 0, 0, "NIFTY")

CalcRender == results' = Results(capital', riskPercent', entryPrice', stopLoss', instrument')

\* line 101
setCapital ==
    \E v \in Capitals :
        /\ capital' = v
        /\ UNCHANGED <<riskPercent, entryPrice, stopLoss, instrument>>
        /\ CalcRender
        /\ UNCHANGED <<dashVars, calVars, formVars, appVars>>

\* line 110
setRiskPercent ==
    \E v \in RiskPercents :
        /\ riskPercent' = v
        /\ UNCHANGED <<capital, entryPrice, stopLoss, instrument>>
        /\ CalcRender
        /\ UNCHANGED <<dashVars, calVars, formVars, appVars>>

\* line 122
setEntryPrice ==
    \E v \in EntryPrices :
        /\ entryPrice' = v
        /\ UNCHANGED <<capital, riskPercent, stopLoss, instrument>>
        /\ CalcRender
        /\ UNCHANGED <<dashVars, calVars, formVars, appVars>>

\* line 132
setStopLoss ==
    \E v \in StopLosses :
        /\ stopLoss' = v
        /\ UNCHANGED <<capital, riskPercent, entryPrice, instrument>>
        /\ CalcRender
        /\ UNCHANGED <<dashVars, calVars, formVars, appVars>>

\* line 82
setInstrument ==
    \E key \in Instruments :
        /\ instrument' = key
        /\ UNCHANGED <<capital, riskPercent, entryPrice, stopLoss>>
        /\ CalcRender
        /\ UNCHANGED <<dashVars, calVars, formVars, appVars>>

----------------------------------------------------------------------------
(* The journal the Dashboard specifications range over *)

MaxTrades == 3

\* identifiers (crypto.randomUUID, shortened) and the entry date of each trade:
\* "3b" and "a1" share a timestamp, "f0" is in the previous month and year
TradeIds == { <<"3", "a">>, <<"3", "b">>, <<"a", "1">>, <<"f", "0">> }
EntryDateOf(id) ==
    CASE id = <<"3", "a">> -> <<"2","0","2","4","-","0","1","-","2","0">>
      [] id = <<"3", "b">> -> <<"2","0","2","4","-","0","1","-","0","5">>
      [] id = <<"a", "1">> -> <<"2","0","2","4","-","0","1","-","0","5",
                                "T","0","0",":","0","0",":","0","0","Z">>
      [] id = <<"f", "0">> -> <<"2","0","2","3","-","1","2","-","3","1",
                                "T","2","3",":","3","0",":","0","0","Z">>
      [] id = <<"c", "1">> -> <<"2","0","2","4","-","0","2","-","0","1">>

\* status and realized pnl of a journal entry: closed with and without a pnl, and
\* a trade that is not closed and carries a pnl (the Dashboard tests the status
\* against CLOSED only)
Outcomes ==
    {[status |-> CLOSED, pnl |-> p] : p \in {Undefined, Some(Rs(-50)), Some(0), Some(Rs(100))}}
    \cup {[status |-> OPEN, pnl |-> Some(Rs(100))]}

JournalTrade(id, o) ==
    Trade(id, LONG, o.status, EntryDateOf(id), Rs(100), Undefined, Rs(1), o.pnl)

----------------------------------------------------------------------------
(* TradeForm.tsx: the trade form.  Every number of the form is in          *)
(* thousandths; the value of an input is the sequence of its characters    *)

\* the number written by a sequence of digits
RECURSIVE ParseDigits(_)
ParseDigits(s) == IF s = <<>> THEN 0
                  ELSE ParseDigits(SubSeq(s, 1, Len(s) - 1)) * 10 + DigitVal(s[Len(s)])

\* parseFloat(value) for the value of a number input: an optional "-", digits and
\* an optional "." with up to three more digits
ParseFloat(value) ==
    LET neg   == value[1] = "-"
        body  == IF neg THEN Tail(value) ELSE value
        dot   == IF \E i \in 1..Len(body) : body[i] = "."
                 THEN CHOOSE i \in 1..Len(body) : body[i] = "."
                 ELSE Len(body) + 1
        whole == ParseDigits(SubSeq(body, 1, dot - 1))
        frac  == SubSeq(SubSeq(body, dot + 1, Len(body)) \o <<"0", "0", "0">>, 1, 3)
        milli == whole * 1000 + ParseDigits(frac)
    IN  IF neg THEN -milli ELSE milli

\* Number(x.toFixed(2)), line 176, for x in millionths (a product of two numbers
\* of the form): the nearest hundredth, in thousandths.  A product exactly half way
\* between two hundredths goes away from zero here; in the program its binary
\* representation decides, and no input below gives such a product
ToFixed2(x) ==
    LET hundredths == (Abs(x) + 5000) \div 10000
    IN  IF x < 0 THEN -(hundredths * 10) ELSE hundredths * 10

\* lines 24-32
LOT_SIZES(idx) == CASE idx = "NIFTY" -> 75
                    [] idx = "BANKNIFTY" -> 15

\* useState<Partial<Trade>>({...}), lines 71-81; today is the entry date
FormDefaults(today) ==
    [symbol |-> "", type |-> LONG, status |-> OPEN,
     entryDate |-> DateStr(today.year, today.month, today.date),
     entryPrice |-> Undefined, exitPrice |-> Undefined,
     quantity |-> Undefined, pnl |-> Undefined]

\* lines 155, 164
NumericFields == {"entryPrice", "exitPrice", "quantity", "pnl"}
PnlFields == {"entryPrice", "exitPrice", "quantity", "type"}

\* swaps the sides of lines 172-175
CalculatedPnlSidesSwapped(type, entry, exit, qty) ==
    LET diff == exit - entry
    IN  IF type = LONG THEN (-diff) * qty ELSE diff * qty

\* lines 171-175: diff and calculatedPnl, in millionths
CalculatedPnl(type, entry, exit, qty) ==
    LET diff == exit - entry
    IN  IF type = LONG THEN diff * qty ELSE (-diff) * qty

\* the function handleChange passes to setFormData, lines 154-181.  A number input
\* gives '' or a numeral, so parseFloat never gives NaN
HandleChange(prev, name, value) ==
    LET parsedValue == IF name \in NumericFields
                       THEN IF value = <<>> THEN Undefined ELSE Some(ParseFloat(value))
                       ELSE value
        updatedData == [prev EXCEPT ![name] = parsedValue]
        entry == IF name = "entryPrice" THEN parsedValue ELSE prev.entryPrice
        exit  == IF name = "exitPrice" THEN parsedValue ELSE prev.exitPrice
        qty   == IF name = "quantity" THEN parsedValue ELSE prev.quantity
        type  == IF name = "type" THEN parsedValue ELSE prev.type
    IN  IF /\ name \in PnlFields
           /\ IsDefined(entry) /\ IsDefined(exit) /\ IsDefined(qty)
        THEN [updatedData EXCEPT
                !.pnl = Some(ToFixed2(CalculatedPnl(type, entry[1], exit[1], qty[1])))]
        ELSE updatedData

\* the form's inputs as the browser validates them before it calls onSubmit: the
\* required attributes (symbol, quantity, entryPrice, and exitPrice of a closed trade)
\* and the steps (1 for the quantity, 0.05 for the prices and the pnl); the exitPrice
\* and pnl inputs exist only while the status is CLOSED (line 641)
OnStep(o, step) == IF o = Undefined THEN TRUE ELSE o[1] % step = 0
ConstraintsValid(f) ==
    /\ f.symbol # ""
    /\ IsDefined(f.quantity) /\ OnStep(f.quantity, 1000)
    /\ IsDefined(f.entryPrice) /\ OnStep(f.entryPrice, 50)
    /\ f.status = CLOSED =>
          /\ IsDefined(f.exitPrice) /\ OnStep(f.exitPrice, 50)
          /\ OnStep(f.pnl, 50)

\* const trade: Trade = {...}, lines 326-342
SubmittedTrade(f, id) ==
    Trade(id, f.type, f.status, f.entryDate, f.entryPrice[1], f.exitPrice,
          IF OrZero(f.quantity) = 0 THEN Rs(1) ELSE f.quantity[1], f.pnl)

----------------------------------------------------------------------------
(* Specification of the Dashboard statistics: the trade collection changes *)
(* as App.tsx changes it, and every change re-renders the Dashboard         *)

Render(ts) == stats' = DashboardStats(ts)

TradesPrepended ==
    \E id \in TradeIds \ IdsOf(trades), o \in Outcomes :
        /\ Len(trades) < MaxTrades
        /\ trades' = PrependTrade(trades, JournalTrade(id, o))
        /\ Render(trades')
        /\ UNCHANGED <<calVars, calcVars, formVars, appVars>>

TradesReplaced ==
    \E id \in IdsOf(trades), o \in Outcomes :
        /\ trades' = ReplaceTrade(trades, JournalTrade(id, o))
        /\ Render(trades')
        /\ UNCHANGED <<calVars, calcVars, formVars, appVars>>

TradesFiltered ==
    \E id \in IdsOf(trades) :
        /\ trades' = RemoveTrade(trades, id)
        /\ Render(trades')
        /\ UNCHANGED <<calVars, calcVars, formVars, appVars>>

DashInit ==
    /\ trades = <<>>
    /\ stats = DashboardStats(<<>>)

\* Each specification follows one component; the state of the others stays as
\* constructed and its claims do not read it.

Today == [year |-> 2024, month |-> 0, date |-> 20]

\* Dashboard.tsx line 18: useState(new Date())
CalInit(today) ==
    /\ dailyNotes = <<>>
    /\ currentDateView = today
    /\ calendarData = CalendarData(<<>>, <<>>, today)

FormInit ==
    /\ formData = FormDefaults(Today)
    /\ formOpen = FALSE

\* App.tsx lines 33, 56-58; nobody is signed in at the store, which is empty
AiInit ==
    /\ aiModalOpen = FALSE /\ isAnalyzing = FALSE /\ aiAnalysis = ""
    /\ aiCalls = <<>>
\* part_000 holds two copies of the store service (lines 44-189 and 190-338)
ServiceCopies == {1, 2}
StoreInitOf(copy) ==
    /\ serviceCopy = copy
    /\ editingTrade = Undefined
    /\ authUser = Undefined
    /\ dbTrades = <<>> /\ dbNotes = <<>>
    /\ dbCalls = <<>>
StoreInit == StoreInitOf(1)
\* Dashboard.tsx lines 110, 127: the charts of an empty journal
ChartsInit(tz) ==
    /\ tzOffset = tz
    /\ equityCurveData = EquityCurveData(<<>>, tz)
    /\ monthlyChartData = MonthlyChartData(<<>>, tz)
AppInit == AiInit /\ StoreInit /\ ChartsInit(0)

Init == DashInit /\ CalInit(Today) /\ CalcInit /\ FormInit /\ AppInit
Next == TradesPrepended \/ TradesReplaced \/ TradesFiltered
Spec == Init /\ [][Next]_vars

\* the Calendar Aggregator: the days on which the Dashboard may be opened and the
\* trades of its journal (no note is written)
Todays == {Today, [year |-> 2023, month |-> 11, date |-> 31],
           [year |-> 2024, month |-> 1, date |-> 29]}
CalendarIds == { <<"3", "b">>, <<"a", "1">>, <<"f", "0">> }
CalendarOutcomes ==
    {[status |-> CLOSED, pnl |-> p] : p \in {Undefined, Some(Rs(-50)), Some(Rs(100))}}
    \cup {[status |-> OPEN, pnl |-> Some(Rs(100))]}
MaxMonthsAway == 2

MonthIndex(view) == view.year * 12 + view.month

CalendarRender ==
    calendarData' = CalendarData(trades', dailyNotes', currentDateView')

changeMonth ==
    \E delta \in {-1, 1} :
        /\ Abs(MonthIndex(ChangeMonth(currentDateView, delta)) - MonthIndex(Today))
              <= MaxMonthsAway
        /\ currentDateView' = ChangeMonth(currentDateView, delta)
        /\ UNCHANGED <<trades, dailyNotes>>
        /\ CalendarRender
        /\ UNCHANGED <<stats, calcVars, formVars, appVars>>

CalendarTradesPrepended ==
    \E id \in CalendarIds \ IdsOf(trades), o \in CalendarOutcomes :
        /\ trades' = PrependTrade(trades, JournalTrade(id, o))
        /\ UNCHANGED <<dailyNotes, currentDateView>>
        /\ CalendarRender
        /\ UNCHANGED <<stats, calcVars, formVars, appVars>>

CalendarTradesReplaced ==
    \E id \in IdsOf(trades), o \in CalendarOutcomes :
        /\ trades' = ReplaceTrade(trades, JournalTrade(id, o))
        /\ UNCHANGED <<dailyNotes, currentDateView>>
        /\ CalendarRender
        /\ UNCHANGED <<stats, calcVars, formVars, appVars>>

CalendarTradesFiltered ==
    \E id \in IdsOf(trades) :
        /\ trades' = RemoveTrade(trades, id)
        /\ UNCHANGED <<dailyNotes, currentDateView>>
        /\ CalendarRender
        /\ UNCHANGED <<stats, calcVars, formVars, appVars>>

InitCalendar ==
    DashInit /\ (\E today \in Todays : CalInit(today)) /\ CalcInit /\ FormInit /\ AppInit
NextCalendar ==
    \/ changeMonth
    \/ CalendarTradesPrepended
    \/ CalendarTradesReplaced
    \/ CalendarTradesFiltered
SpecCalendar == InitCalendar /\ [][NextCalendar]_vars

\* the Position Sizing Calculator
NextCalc == setCapital \/ setRiskPercent \/ setEntryPrice \/ setStopLoss \/ setInstrument
SpecCalc == Init /\ [][NextCalc]_vars

\* the charts of the Dashboard: the journal changes as App.tsx changes it, in a
\* browser west of UTC or east of it; "c1" is dated the first of a month
TimeZones == {-300, 330}
ChartIds == { <<"3", "a">>, <<"3", "b">>, <<"f", "0">>, <<"c", "1">> }
ChartOutcomes ==
    {[status |-> CLOSED, pnl |-> p] : p \in {Undefined, Some(Rs(-40)), Some(Rs(100))}}
    \cup {[status |-> OPEN, pnl |-> Some(Rs(100))]}

ChartsRender ==
    /\ Render(trades')
    /\ equityCurveData' = EquityCurveData(trades', tzOffset)
    /\ monthlyChartData' = MonthlyChartData(trades', tzOffset)
    /\ UNCHANGED envVars

ChartTradesPrepended ==
    \E id \in ChartIds \ IdsOf(trades), o \in ChartOutcomes :
        /\ Len(trades) < MaxTrades
        /\ trades' = PrependTrade(trades, JournalTrade(id, o))
        /\ ChartsRender
        /\ UNCHANGED <<calVars, calcVars, formVars, aiVars, storeVars>>

ChartTradesReplaced ==
    \E id \in IdsOf(trades), o \in ChartOutcomes :
        /\ trades' = ReplaceTrade(trades, JournalTrade(id, o))
        /\ ChartsRender
        /\ UNCHANGED <<calVars, calcVars, formVars, aiVars, storeVars>>

ChartTradesFiltered ==
    \E id \in IdsOf(trades) :
        /\ trades' = RemoveTrade(trades, id)
        /\ ChartsRender
        /\ UNCHANGED <<calVars, calcVars, formVars, aiVars, storeVars>>

InitCharts ==
    /\ DashInit /\ CalInit(Today) /\ CalcInit /\ FormInit /\ AiInit /\ StoreInit
    /\ \E tz \in TimeZones : ChartsInit(tz)
NextCharts == ChartTradesPrepended \/ ChartTradesReplaced \/ ChartTradesFiltered
SpecCharts == InitCharts /\ [][NextCharts]_vars

----------------------------------------------------------------------------
(* Specification of the trade form: a new trade is entered and submitted *)

MaxSubmits == 1

SymbolInputs   == {"", "NIFTY"}
StatusInputs   == TradeStatuses
EntryInputs    == {<<>>, <<"1", "0", "0">>, <<"1", "0", "0", ".", "0", "0", "4">>}
ExitInputs     == {<<>>, <<"1", "2", "0">>}
QuantityInputs == {<<>>, <<"1">>, <<"1", "0">>}
PnlInputs      == {<<>>, <<"-", "5", "0">>}
InputsOf(name) == CASE name = "symbol" -> SymbolInputs
                    [] name = "status" -> StatusInputs
                    [] name = "entryPrice" -> EntryInputs
                    [] name = "exitPrice" -> ExitInputs
                    [] name = "quantity" -> QuantityInputs
                    [] name = "pnl" -> PnlInputs
\* the inputs whose onChange is handleChange; those of the Outcome section are
\* rendered while the status is CLOSED (line 641)
RenderedInputs(f) == {"symbol", "status", "entryPrice", "quantity"}
                     \cup (IF f.status = CLOSED THEN {"exitPrice", "pnl"} ELSE {})

\* App.tsx lines 418, 452: setEditingTrade(null); setIsFormOpen(true)
openForm ==
    /\ ~formOpen
    /\ Len(trades) < MaxSubmits
    /\ formOpen' = TRUE
    /\ formData' = FormDefaults(Today)
    /\ UNCHANGED <<dashVars, calVars, calcVars, appVars>>

\* TradeForm.tsx lines 151-182
handleChange ==
    /\ formOpen
    /\ \E name \in RenderedInputs(formData) : \E value \in InputsOf(name) :
          formData' = HandleChange(formData, name, value)
    /\ UNCHANGED <<formOpen, dashVars, calVars, calcVars, appVars>>

\* the Buy and Sell buttons, lines 508, 519
setType ==
    /\ formOpen
    /\ \E type \in TradeTypes : formData' = [formData EXCEPT !.type = type]
    /\ UNCHANGED <<formOpen, dashVars, calVars, calcVars, appVars>>

\* lines 245-247; the button is in the Outcome section
clearPnL ==
    /\ formOpen
    /\ formData.status = CLOSED
    /\ formData' = [formData EXCEPT !.pnl = Undefined]
    /\ UNCHANGED <<formOpen, dashVars, calVars, calcVars, appVars>>

\* lines 272-286
handleIndexClick ==
    /\ formOpen
    /\ \E idx \in {"NIFTY"} :
          formData' = [formData EXCEPT !.symbol = idx, !.quantity = Some(Rs(LOT_SIZES(idx)))]
    /\ UNCHANGED <<formOpen, dashVars, calVars, calcVars, appVars>>

\* lines 315-320 and App.tsx line 490
handleClose ==
    /\ formOpen
    /\ formOpen' = FALSE
    /\ formData' = FormDefaults(Today)
    /\ UNCHANGED <<dashVars, calVars, calcVars, appVars>>

\* TradeForm.tsx lines 323-350, then App.tsx handleSaveTrade, lines 201-210, with
\* editingTrade = null; the Dashboard renders the new collection
handleSubmit ==
    /\ formOpen
    /\ ConstraintsValid(formData)
    /\ ~(formData.symbol = "" \/ formData.entryPrice = Undefined)
    /\ \E id \in TradeIds \ IdsOf(trades) :
          trades' = PrependTrade(trades, SubmittedTrade(formData, id))
    /\ Render(trades')
    /\ calendarData' = CalendarData(trades', dailyNotes, currentDateView)
    /\ formOpen' = FALSE
    /\ formData' = FormDefaults(Today)
    /\ UNCHANGED <<dailyNotes, currentDateView, calcVars, appVars>>

NextForm == openForm \/ handleChange \/ setType \/ clearPnL \/ handleIndexClick
            \/ handleClose \/ handleSubmit
SpecForm == Init /\ [][NextForm]_vars

----------------------------------------------------------------------------
(* The AI coach: analyzeTradeWithAI (the Gemini service) and handleAnalyzeTrade *)
(* of App.tsx                                                                  *)

FeedbackText == "1. ... 2. ... 3. ..."
CouldNotGenerate == "Could not generate analysis."
ErrorConnecting ==
    "Error connecting to AI Coach. Please check your API key or try again later."

\* what getAIClient and ai.models.generateContent can do: a response whose text is
\* a text, the empty string or undefined, or an exception
ModelOutcomes ==
    {[kind |-> "response", text |-> t] : t \in {Some(FeedbackText), Some(""), Undefined}}
    \cup {[kind |-> "throw", text |-> Undefined]}

\* analyzeTradeWithAI without its fallbacks: the response's text as it is, and the
\* exception passed on
AnalyzeTradeWithAINoFallback(outcome) ==
    IF outcome.kind = "throw"
    THEN [state |-> "rejected", result |-> ""]
    ELSE [state |-> "resolved", result |-> IF outcome.text = Undefined THEN "" ELSE outcome.text[1]]

\* analyzeTradeWithAI, lines 6-43: how the promise settles; the trade is read for
\* the prompt only
AnalyzeTradeWithAI(outcome) ==
    IF outcome.kind = "throw"
    THEN [state |-> "resolved", result |-> ErrorConnecting]
    ELSE [state |-> "resolved",
          result |-> IF outcome.text = Undefined THEN CouldNotGenerate
                     ELSE IF outcome.text[1] = "" THEN CouldNotGenerate
                     ELSE outcome.text[1]]

MaxAiCalls == 2

\* the journals whose trades are analysed
AiJournals ==
    {<<JournalTrade(<<"3", "a">>, [status |-> CLOSED, pnl |-> Some(Rs(100))])>>,
     <<JournalTrade(<<"3", "b">>, [status |-> OPEN, pnl |-> Undefined]),
       JournalTrade(<<"f", "0">>, [status |-> CLOSED, pnl |-> Some(Rs(-50))])>>}

RemoveAt(s, k) == SubSeq(s, 1, k - 1) \o SubSeq(s, k + 1, Len(s))

\* App.tsx lines 240-244: up to the await; the open modal covers the TradeList
\* (line 508, fixed inset-0), whose rows hold the button
handleAnalyzeTrade ==
    /\ ~aiModalOpen
    /\ Len(aiCalls) < MaxAiCalls
    /\ \E i \in 1..Len(trades) :
          aiCalls' = Append(aiCalls, [trade |-> trades[i].id, state |-> "pending",
                                      result |-> ""])
    /\ aiModalOpen' = TRUE
    /\ isAnalyzing' = TRUE
    /\ aiAnalysis' = ""
    /\ UNCHANGED <<dashVars, calVars, calcVars, formVars, storeVars, chartVars>>

\* the model call of one pending analyzeTradeWithAI returns or throws
analyzeTradeWithAI ==
    /\ \E k \in 1..Len(aiCalls), outcome \in ModelOutcomes :
          /\ aiCalls[k].state = "pending"
          /\ aiCalls' = [aiCalls EXCEPT ![k] =
                            [trade |-> aiCalls[k].trade,
                             state |-> AnalyzeTradeWithAI(outcome).state,
                             result |-> AnalyzeTradeWithAI(outcome).result]]
    /\ UNCHANGED <<aiModalOpen, isAnalyzing, aiAnalysis>>
    /\ UNCHANGED <<dashVars, calVars, calcVars, formVars, storeVars, chartVars>>

\* App.tsx lines 244-246: after the await; a rejection would leave handleAnalyzeTrade
\* before line 245
analysisReceived ==
    /\ \E k \in 1..Len(aiCalls) :
          /\ aiCalls[k].state # "pending"
          /\ aiCalls' = RemoveAt(aiCalls, k)
          /\ IF aiCalls[k].state = "resolved"
             THEN aiAnalysis' = aiCalls[k].result /\ isAnalyzing' = FALSE
             ELSE UNCHANGED <<aiAnalysis, isAnalyzing>>
    /\ UNCHANGED aiModalOpen
    /\ UNCHANGED <<dashVars, calVars, calcVars, formVars, storeVars, chartVars>>

\* App.tsx lines 519, 546
closeAiModal ==
    /\ aiModalOpen
    /\ aiModalOpen' = FALSE
    /\ UNCHANGED <<isAnalyzing, aiAnalysis, aiCalls>>
    /\ UNCHANGED <<dashVars, calVars, calcVars, formVars, storeVars, chartVars>>

InitAI ==
    /\ \E ts \in AiJournals : trades = ts /\ stats = DashboardStats(ts)
    /\ dailyNotes = <<>> /\ currentDateView = Today
    /\ calendarData = CalendarData(trades, <<>>, Today)
    /\ CalcInit /\ FormInit /\ AppInit
NextAI == handleAnalyzeTrade \/ analyzeTradeWithAI \/ analysisReceived \/ closeAiModal
SpecAI == InitAI /\ [][NextAI]_vars

----------------------------------------------------------------------------
(* The store service (part_000, supabaseService) and the handlers of App.tsx *)
(* that persist the journal.  SpecApp follows the state of App and of the    *)
(* store; the memos of the Dashboard are followed by the specifications      *)
(* above.  A call of the service is a record that moves from the answer of   *)
(* supabase.auth.getUser() to the upsert and to its settled promise.         *)

Null == <<>>
NoUserLoggedIn == "No user logged in"
StoreError == "error of the store"
TheUser == [id |-> "u1"]

\* saveTradeToDb, lines 133-152: dbTrade; an undefined optional field is sent as NULL
DbTrade(trade, user) ==
    [id |-> trade.id, user_id |-> user.id, type |-> trade.type, status |-> trade.status,
     entry_date |-> trade.entryDate, entry_price |-> trade.entryPrice,
     quantity |-> trade.quantity,
     exit_price |-> IF trade.exitPrice # Undefined THEN trade.exitPrice ELSE Null,
     stop_loss |-> IF trade.stopLoss # Undefined THEN trade.stopLoss ELSE Null,
     take_profit |-> IF trade.takeProfit # Undefined THEN trade.takeProfit ELSE Null,
     pnl |-> IF trade.pnl # Undefined THEN trade.pnl ELSE Null]

\* the second copy, lines 279-296: the optional fields are passed as they are; an
\* undefined one is not sent, and the column of a new row is NULL
DbTradeSecond(trade, user) ==
    [id |-> trade.id, user_id |-> user.id, type |-> trade.type, status |-> trade.status,
     entry_date |-> trade.entryDate, entry_price |-> trade.entryPrice,
     quantity |-> trade.quantity,
     exit_price |-> trade.exitPrice, stop_loss |-> trade.stopLoss,
     take_profit |-> trade.takeProfit, pnl |-> trade.pnl]

DbTradeOf(copy, trade, user) ==
    IF copy = 1 THEN DbTrade(trade, user) ELSE DbTradeSecond(trade, user)

\* saveDailyNoteToDb, lines 181-186
DbNote(note, user) == [user_id |-> user.id, date |-> note.date, content |-> note.content]

\* .upsert(dbTrade): the row with the same id is replaced, a new row is added
UpsertTrade(rows, row) ==
    IF \E i \in 1..Len(rows) : rows[i].id = row.id
    THEN [i \in 1..Len(rows) |-> IF rows[i].id = row.id THEN row ELSE rows[i]]
    ELSE Append(rows, row)

\* .upsert(..., { onConflict: 'user_id, date' })
UpsertNote(rows, row) ==
    IF \E i \in 1..Len(rows) : rows[i].user_id = row.user_id /\ rows[i].date = row.date
    THEN [i \in 1..Len(rows) |->
             IF rows[i].user_id = row.user_id /\ rows[i].date = row.date
             THEN row ELSE rows[i]]
    ELSE Append(rows, row)

\* t.x ? Number(t.x) : undefined: NULL and 0 are falsy
IfTruthy(column) ==
    IF column = Null THEN Undefined ELSE IF column = Some(0) THEN Undefined ELSE column

\* t.pnl !== null ? Number(t.pnl) : undefined
IfNotNull(column) == IF column # Null THEN column ELSE Undefined

\* fetchTrades, lines 110-126: the mapping of a row; exit_price, stop_loss and
\* take_profit are tested for truthiness, pnl against null
FromRow(r) ==
    WithStops(Trade(r.id, r.type, r.status, r.entry_date, r.entry_price,
                    IfTruthy(r.exit_price), r.quantity, IfNotNull(r.pnl)),
              IfTruthy(r.stop_loss), IfTruthy(r.take_profit))

\* the second copy, lines 256-272: pnl is tested for truthiness too
FromRowSecond(r) ==
    WithStops(Trade(r.id, r.type, r.status, r.entry_date, r.entry_price,
                    IfTruthy(r.exit_price), r.quantity, IfTruthy(r.pnl)),
              IfTruthy(r.stop_loss), IfTruthy(r.take_profit))

FromRowOf(copy, r) == IF copy = 1 THEN FromRow(r) ELSE FromRowSecond(r)

\* the rows that the store shows to the session: those of its user, none without one
VisibleRows(rows, user) ==
    IF user = Undefined THEN <<>>
    ELSE SelectSeq(rows, LAMBDA r : r.user_id = user[1].id)

Reverse(s) == [i \in 1..Len(s) |-> s[Len(s) + 1 - i]]

\* fetchTrades, lines 102-127 and 248-273: .order('entry_date', { ascending: false })
FetchTrades(copy, rows, user) ==
    LET visible == VisibleRows(rows, user)
    IN  Reverse(SortByEntryDate([i \in 1..Len(visible) |-> FromRowOf(copy, visible[i])]))

\* fetchDailyNotes, lines 166-175
FetchDailyNotes(rows, user) ==
    LET visible == VisibleRows(rows, user)
    IN  [i \in 1..Len(visible) |-> [date |-> visible[i].date, content |-> visible[i].content]]

\* a call of saveTradeToDb or saveDailyNoteToDb that awaits supabase.auth.getUser()
NewCall(fn, arg) ==
    [fn |-> fn, arg |-> arg, pc |-> "getUser", user |-> Undefined, upserts |-> 0,
     deletes |-> 0, error |-> ""]

\* a call of deleteTradeFromDb, lines 161-164, which asks for no user
DeleteCall(id) == [NewCall("deleteTradeFromDb", id) EXCEPT !.pc = "delete"]

\* throw: the promise of the call is rejected
Throw(call, error) == [call EXCEPT !.pc = "rejected", !.error = error]

\* the guard after an upsert was sent
AfterGetUserUpsertFirst(call, user) ==
    IF user = Undefined THEN [Throw(call, NoUserLoggedIn) EXCEPT !.upserts = 1]
    ELSE [call EXCEPT !.pc = "upsert", !.user = user]

\* lines 130-131 and 178-179: if (!user) throw new Error("No user logged in")
AfterGetUser(call, user) ==
    IF user = Undefined THEN Throw(call, NoUserLoggedIn)
    ELSE [call EXCEPT !.pc = "upsert", !.user = user]

\* lines 154-158 and 181-188: the upsert is sent; if (error) throw error
AfterUpsert(call, ok) ==
    IF ok THEN [call EXCEPT !.pc = "resolved", !.upserts = @ + 1]
    ELSE [Throw(call, StoreError) EXCEPT !.upserts = @ + 1]

\* lines 162-163: the delete is sent; if (error) throw error
AfterDelete(call, ok) ==
    IF ok THEN [call EXCEPT !.pc = "resolved", !.deletes = @ + 1]
    ELSE [Throw(call, StoreError) EXCEPT !.deletes = @ + 1]

\* .delete().eq('id', id): the rows of the session's user with that id go
DeleteRows(rows, id, user) ==
    IF user = Undefined THEN rows
    ELSE SelectSeq(rows, LAMBDA r : ~(r.id = id /\ r.user_id = user[1].id))

\* handleDeleteTrade without the question
AfterDeleteTradeUnasked(ts, calls, id, confirmed) ==
    [trades |-> RemoveTrade(ts, id), calls |-> Append(calls, DeleteCall(id))]

\* App.tsx lines 221-227, to the await: confirm(...), the optimistic removal and
\* the call of deleteTradeFromDb
AfterDeleteTrade(ts, calls, id, confirmed) ==
    IF confirmed
    THEN [trades |-> RemoveTrade(ts, id), calls |-> Append(calls, DeleteCall(id))]
    ELSE [trades |-> ts, calls |-> calls]

\* updated.push(note) without the filter
ReplaceNoteAppendOnly(notes, note) == Append(notes, note)

\* App.tsx line 158: dailyNotes.filter(n => n.date !== note.date), then push(note)
ReplaceNote(notes, note) == Append(SelectSeq(notes, LAMBDA n : n.date # note.date), note)

MaxDbCalls == 1
AppIds == { <<"3", "a">>, <<"3", "b">> }
AppOutcomes == {[status |-> CLOSED, pnl |-> Some(Rs(100))], [status |-> OPEN, pnl |-> Undefined]}
AppNotes == {[date |-> EntryDateOf(<<"3", "a">>), content |-> "plan"]}

\* crypto.randomUUID(), TradeForm.tsx line 328: an id that is nowhere yet
FreshIds ==
    AppIds \ (IdsOf(trades) \cup {dbTrades[i].id : i \in 1..Len(dbTrades)}
              \cup {dbCalls[i].arg.id : i \in {j \in 1..Len(dbCalls) : dbCalls[j].fn = "saveTradeToDb"}})

\* App.tsx lines 73-84: loadData; the fetch fails (the catch only logs) or the
\* collections are replaced by what the store shows
Loaded(ok) ==
    IF ok
    THEN /\ trades' = FetchTrades(serviceCopy, dbTrades, authUser)
         /\ dailyNotes' = FetchDailyNotes(dbNotes, authUser)
    ELSE UNCHANGED <<trades, dailyNotes>>

\* App.tsx lines 107-112: the auth listener with a session
signedIn ==
    /\ authUser = Undefined
    /\ authUser' = Some(TheUser)
    /\ UNCHANGED <<editingTrade, dbTrades, dbNotes, dbCalls>>
    /\ UNCHANGED <<dashVars, calVars, calcVars, formVars, aiVars, chartVars>>

\* App.tsx lines 113-119 and handleLogout, lines 254-266: the session ends
signedOut ==
    /\ authUser # Undefined
    /\ authUser' = Undefined
    /\ trades' = <<>>
    /\ dailyNotes' = <<>>
    /\ UNCHANGED <<editingTrade, dbTrades, dbNotes, dbCalls>>
    /\ UNCHANGED <<stats, currentDateView, calendarData, calcVars, formVars, aiVars, chartVars>>

\* App.tsx lines 128-137: the effect of a user and the realtime subscriptions
LoadData ==
    /\ authUser # Undefined
    /\ Loaded(TRUE)
    /\ UNCHANGED storeVars
    /\ UNCHANGED <<currentDateView, calendarData, calcVars, formVars, aiVars, chartVars>>

loadData == LoadData /\ UNCHANGED stats

\* App.tsx lines 418, 452: setEditingTrade(null); setIsFormOpen(true)
newTradeClicked ==
    /\ authUser # Undefined
    /\ ~formOpen
    /\ editingTrade' = Undefined
    /\ formOpen' = TRUE
    /\ UNCHANGED <<formData, authUser, dbTrades, dbNotes, dbCalls>>
    /\ UNCHANGED <<dashVars, calVars, calcVars, aiVars, chartVars>>

\* App.tsx lines 235-238, from a row of the TradeList
handleEditTrade ==
    /\ authUser # Undefined
    /\ ~formOpen
    /\ \E i \in 1..Len(trades) : editingTrade' = Some(trades[i])
    /\ formOpen' = TRUE
    /\ UNCHANGED <<formData, authUser, dbTrades, dbNotes, dbCalls>>
    /\ UNCHANGED <<dashVars, calVars, calcVars, aiVars, chartVars>>

\* App.tsx line 490: the form is closed without a submission
onClose ==
    /\ authUser # Undefined
    /\ formOpen
    /\ formOpen' = FALSE
    /\ editingTrade' = Undefined
    /\ UNCHANGED <<formData, authUser, dbTrades, dbNotes, dbCalls>>
    /\ UNCHANGED <<dashVars, calVars, calcVars, aiVars, chartVars>>

\* the trades that the form can submit under an id
AppTrades(id) == {JournalTrade(id, o) : o \in AppOutcomes}

\* App.tsx lines 201-213, to the await: the trade that the form submits has the id
\* of initialData, or a new one (TradeForm.tsx line 328)
HandleSaveTrade(Submitted(_)) ==
    /\ authUser # Undefined
    /\ formOpen
    /\ Len(dbCalls) < MaxDbCalls
    /\ \E id \in IF editingTrade # Undefined THEN {editingTrade[1].id} ELSE FreshIds :
       \E trade \in Submitted(id) :
          /\ trades' = IF editingTrade # Undefined
                       THEN ReplaceTrade(trades, trade)
                       ELSE PrependTrade(trades, trade)
          /\ dbCalls' = Append(dbCalls, NewCall("saveTradeToDb", trade))
    /\ formOpen' = FALSE
    /\ editingTrade' = Undefined
    /\ UNCHANGED <<formData, authUser, dbTrades, dbNotes>>
    /\ UNCHANGED <<stats, calVars, calcVars, aiVars, chartVars>>

handleSaveTrade == HandleSaveTrade(AppTrades)

\* App.tsx lines 153-160, to the await
HandleSaveNote(written) ==
    /\ authUser # Undefined
    /\ ~formOpen
    /\ Len(dbCalls) < MaxDbCalls
    /\ \E note \in written :
          /\ dailyNotes' = ReplaceNote(dailyNotes, note)
          /\ dbCalls' = Append(dbCalls, NewCall("saveDailyNoteToDb", note))
    /\ UNCHANGED <<editingTrade, authUser, dbTrades, dbNotes>>
    /\ UNCHANGED <<dashVars, currentDateView, calendarData, calcVars, formVars, aiVars,
                   chartVars>>

handleSaveNote == HandleSaveNote(AppNotes)

\* App.tsx lines 221-227, from a row of the TradeList
handleDeleteTrade ==
    /\ authUser # Undefined
    /\ ~formOpen
    /\ Len(dbCalls) < MaxDbCalls
    /\ \E i \in 1..Len(trades) : \E confirmed \in BOOLEAN :
          /\ trades' = AfterDeleteTrade(trades, dbCalls, trades[i].id, confirmed).trades
          /\ dbCalls' = AfterDeleteTrade(trades, dbCalls, trades[i].id, confirmed).calls
    /\ UNCHANGED <<editingTrade, authUser, dbTrades, dbNotes>>
    /\ UNCHANGED <<stats, calVars, calcVars, formVars, aiVars, chartVars>>

\* part_000 lines 161-164: the store applies the delete or answers an error
delete ==
    /\ \E i \in 1..Len(dbCalls) : \E ok \in BOOLEAN :
          /\ dbCalls[i].pc = "delete"
          /\ dbCalls' = [dbCalls EXCEPT ![i] = AfterDelete(@, ok)]
          /\ dbTrades' = IF ok THEN DeleteRows(dbTrades, dbCalls[i].arg, authUser)
                         ELSE dbTrades
    /\ UNCHANGED <<editingTrade, authUser, dbNotes>>
    /\ UNCHANGED <<dashVars, calVars, calcVars, formVars, aiVars, chartVars>>

\* part_000 lines 130-131, 178-179: supabase.auth.getUser() answers
getUser ==
    /\ \E i \in 1..Len(dbCalls) :
          /\ dbCalls[i].pc = "getUser"
          /\ dbCalls' = [dbCalls EXCEPT ![i] = AfterGetUser(@, authUser)]
    /\ UNCHANGED <<editingTrade, authUser, dbTrades, dbNotes>>
    /\ UNCHANGED <<dashVars, calVars, calcVars, formVars, aiVars, chartVars>>

\* part_000 lines 154-158, 181-188: the store applies the upsert or answers an error
upsert ==
    /\ \E i \in 1..Len(dbCalls) : \E ok \in BOOLEAN :
          /\ dbCalls[i].pc = "upsert"
          /\ dbCalls' = [dbCalls EXCEPT ![i] = AfterUpsert(@, ok)]
          /\ dbTrades' = IF ok /\ dbCalls[i].fn = "saveTradeToDb"
                         THEN UpsertTrade(dbTrades,
                                          DbTradeOf(serviceCopy, dbCalls[i].arg,
                                                    dbCalls[i].user[1]))
                         ELSE dbTrades
          /\ dbNotes' = IF ok /\ dbCalls[i].fn = "saveDailyNoteToDb"
                        THEN UpsertNote(dbNotes, DbNote(dbCalls[i].arg, dbCalls[i].user[1]))
                        ELSE dbNotes
    /\ UNCHANGED <<editingTrade, authUser>>
    /\ UNCHANGED <<dashVars, calVars, calcVars, formVars, aiVars, chartVars>>

\* App.tsx lines 213-218 and 160-165: the await settles; the catch calls loadData
saveSettled ==
    /\ \E i \in 1..Len(dbCalls) : \E ok \in BOOLEAN :
          /\ dbCalls[i].pc \in {"resolved", "rejected"}
          /\ dbCalls' = RemoveAt(dbCalls, i)
          /\ IF dbCalls[i].pc = "rejected" THEN Loaded(ok)
             ELSE ok /\ UNCHANGED <<trades, dailyNotes>>
    /\ UNCHANGED <<editingTrade, authUser, dbTrades, dbNotes>>
    /\ UNCHANGED <<stats, currentDateView, calendarData, calcVars, formVars, aiVars, chartVars>>

\* another session of the user deletes a trade of the store
remoteDelete ==
    /\ \E i \in 1..Len(dbTrades) : dbTrades' = RemoveAt(dbTrades, i)
    /\ UNCHANGED <<editingTrade, authUser, dbNotes, dbCalls>>
    /\ UNCHANGED <<dashVars, calVars, calcVars, formVars, aiVars, chartVars>>

NextApp == signedIn \/ signedOut \/ loadData \/ newTradeClicked \/ handleEditTrade
           \/ onClose \/ handleSaveTrade \/ handleSaveNote \/ handleDeleteTrade
           \/ getUser \/ upsert \/ delete \/ saveSettled \/ remoteDelete
SpecApp == Init /\ [][NextApp]_vars

----------------------------------------------------------------------------
(* A trade is saved to the store and listed again, by either copy of the    *)
(* store service: a new trade is submitted once, with and without each of   *)
(* its optional amounts, an amount of 0 included                            *)

RoundTripPnls  == {Undefined, Some(0), Some(Rs(100))}
RoundTripExits == {Undefined, Some(0), Some(Rs(120))}
RoundTripStops == {Undefined, Some(0), Some(Rs(90))}
RoundTripTargets == {Undefined, Some(Rs(150))}
RoundTripTrades(id) ==
    IF id # <<"3", "a">> THEN {}
    ELSE {WithStops(Trade(id, LONG, CLOSED, EntryDateOf(id), Rs(100), exit, Rs(1), pnl),
                    stop, target) :
             exit \in RoundTripExits, pnl \in RoundTripPnls,
             stop \in RoundTripStops, target \in RoundTripTargets}

roundTripSaveTrade == HandleSaveTrade(RoundTripTrades)

\* the reload of the effect and of the realtime subscriptions; the Dashboard renders
\* the listed trades
roundTripLoadData ==
    /\ LoadData
    /\ Render(trades')

InitRoundTrip ==
    /\ DashInit /\ CalInit(Today) /\ CalcInit /\ FormInit /\ AiInit /\ ChartsInit(0)
    /\ \E copy \in ServiceCopies : StoreInitOf(copy)
NextRoundTrip == signedIn \/ newTradeClicked \/ roundTripSaveTrade \/ getUser \/ upsert
                 \/ saveSettled \/ roundTripLoadData
SpecRoundTrip == InitRoundTrip /\ [][NextRoundTrip]_vars

----------------------------------------------------------------------------
(* The daily notes: notes are written for two dates and rewritten, the store *)
(* answers, and the notes are reloaded; no trade is entered                  *)

NoteDates == {EntryDateOf(<<"3", "a">>), EntryDateOf(<<"3", "b">>)}
NoteContents == {"plan", "review"}
WrittenNotes == {[date |-> d, content |-> c] : d \in NoteDates, c \in NoteContents}

notesSaveNote == HandleSaveNote(WrittenNotes)

NextNotes == signedIn \/ signedOut \/ notesSaveNote \/ getUser \/ upsert \/ saveSettled
             \/ loadData
SpecNotes == Init /\ [][NextNotes]_vars

----------------------------------------------------------------------------
(* The reloads of the App: every loadData() is a promise that reads the      *)
(* store when it is called and settles later, in any order; other sessions   *)
(* of the user change the store, and the session ends                        *)

MaxLoads == 2

\* the promise of a loadData(), lines 73-84, with what its two fetches have read
LoadCall(value) == [NewCall("loadData", value) EXCEPT !.pc = "pending"]

\* Promise.all([fetchTrades(), fetchDailyNotes()]), lines 75-78
StoreView(user) ==
    [trades |-> FetchTrades(serviceCopy, dbTrades, user),
     notes |-> FetchDailyNotes(dbNotes, user)]

LoadsOf(calls) == SelectSeq(calls, LAMBDA c : c.fn = "loadData")

\* App.tsx lines 107-112 and 128-131: the auth listener with a session, and the
\* effect of the user, which calls loadData()
sessionBegins ==
    /\ authUser = Undefined
    /\ Len(LoadsOf(dbCalls)) < MaxLoads
    /\ authUser' = Some(TheUser)
    /\ dbCalls' = Append(dbCalls, LoadCall(StoreView(Some(TheUser))))
    /\ UNCHANGED <<editingTrade, dbTrades, dbNotes>>
    /\ UNCHANGED <<dashVars, calVars, calcVars, formVars, aiVars, chartVars>>

\* App.tsx lines 133-146: a postgres_changes event of either channel calls loadData()
postgresChanges ==
    /\ authUser # Undefined
    /\ Len(LoadsOf(dbCalls)) < MaxLoads
    /\ dbCalls' = Append(dbCalls, LoadCall(StoreView(authUser)))
    /\ UNCHANGED <<editingTrade, authUser, dbTrades, dbNotes>>
    /\ UNCHANGED <<dashVars, calVars, calcVars, formVars, aiVars, chartVars>>

\* App.tsx lines 79-83: the await settles; setTrades and setDailyNotes, or the
\* catch, which only logs
loadDataSettles ==
    /\ \E i \in 1..Len(dbCalls) : \E ok \in BOOLEAN :
          /\ dbCalls[i].fn = "loadData"
          /\ dbCalls[i].pc = "pending"
          /\ dbCalls' = [dbCalls EXCEPT ![i].pc = IF ok THEN "fulfilled" ELSE "failed"]
          /\ trades' = IF ok THEN dbCalls[i].arg.trades ELSE trades
          /\ dailyNotes' = IF ok THEN dbCalls[i].arg.notes ELSE dailyNotes
    /\ UNCHANGED <<editingTrade, authUser, dbTrades, dbNotes>>
    /\ UNCHANGED <<stats, currentDateView, calendarData, calcVars, formVars, aiVars, chartVars>>

\* another session of the user saves a trade
remoteInsert ==
    /\ \E id \in AppIds :
          /\ \A i \in 1..Len(dbTrades) : dbTrades[i].id # id
          /\ dbTrades' = UpsertTrade(dbTrades,
                                     DbTradeOf(serviceCopy,
                                               JournalTrade(id, [status |-> OPEN,
                                                                 pnl |-> Undefined]),
                                               TheUser))
    /\ UNCHANGED <<editingTrade, authUser, dbNotes, dbCalls>>
    /\ UNCHANGED <<dashVars, calVars, calcVars, formVars, aiVars, chartVars>>

\* another session of the user writes a note
remoteNote ==
    /\ \E note \in AppNotes :
          /\ dbNotes # UpsertNote(dbNotes, DbNote(note, TheUser))
          /\ dbNotes' = UpsertNote(dbNotes, DbNote(note, TheUser))
    /\ UNCHANGED <<editingTrade, authUser, dbTrades, dbCalls>>
    /\ UNCHANGED <<dashVars, calVars, calcVars, formVars, aiVars, chartVars>>

NextReload == sessionBegins \/ signedOut \/ postgresChanges \/ loadDataSettles
              \/ remoteInsert \/ remoteDelete \/ remoteNote
SpecReload == Init /\ [][NextReload]_vars

----------------------------------------------------------------------------
(* Claims about the Statistics Engine, checked under Spec *)

\* the positions of the trades that are CLOSED and carry a pnl
Counted(ts) == {i \in 1..Len(ts) : ts[i].status = CLOSED /\ IsDefined(ts[i].pnl)}

RECURSIVE SumOver(_, _)
SumOver(ts, I) == IF I = {} THEN 0
                  ELSE LET i == CHOOSE j \in I : TRUE
                       IN  OrZero(ts[i].pnl) + SumOver(ts, I \ {i})

\* every reordering of a collection
Reorderings(ts) == {[i \in 1..Len(ts) |-> ts[f[i]]] : f \in Permutations(1..Len(ts))}

ZeroStats ==
    [totalTrades |-> 0, winRate |-> FracInt(0), netPnL |-> 0, avgWin |-> FracInt(0),
     avgLoss |-> FracInt(0), profitFactor |-> FracInt(0), maxWinStreak |-> 0,
     currentStreak |-> 0]

\* C1: netPnL is the sum of pnl over exactly the trades that are CLOSED with a pnl
\* present, and it is the same for every permutation of the collection.
C1_NetPnL ==
    /\ stats.netPnL = SumOver(trades, Counted(trades))
    /\ \A p \in Reorderings(trades) : DashboardStats(p).netPnL = stats.netPnL

\* a journal of a closed loss, a closed win and an open trade that carries a pnl
C1_Witness ==
    /\ Len(trades) = 3
    /\ \E i, j, k \in 1..3 :
          /\ trades[i].status = CLOSED /\ trades[i].pnl = Some(Rs(-50))
          /\ trades[j].status = CLOSED /\ trades[j].pnl = Some(Rs(100))
          /\ trades[k].status = OPEN /\ trades[k].pnl = Some(Rs(100))
    /\ stats.netPnL = Rs(50)

\* C5: winRate lies in [0,100] and is (wins / counted trades) x 100, 0 when no trade
\* is counted; profitFactor is never negative.
C5_WinRateProfitFactor ==
    LET counted == Counted(trades)
        won     == {i \in counted : trades[i].pnl[1] > 0}
    IN  /\ stats.winRate.den > 0
        /\ FracLeq(FracInt(0), stats.winRate)
        /\ FracLeq(stats.winRate, FracInt(100))
        /\ IF counted = {} THEN stats.winRate.num = 0
           ELSE FracEq(stats.winRate, Frac(100 * Cardinality(won), Cardinality(counted)))
        /\ stats.profitFactor.den > 0
        /\ stats.profitFactor.num >= 0

\* two losses and one win: a winRate of one third, a profitFactor of one
C5_Witness ==
    /\ stats.totalTrades = 3
    /\ FracEq(stats.winRate, Frac(100, 3))
    /\ FracEq(stats.profitFactor, FracInt(1))

\* C6: whenever currentStreak is positive, maxWinStreak >= currentStreak.
C6_StreakInvariant == stats.currentStreak > 0 => stats.maxWinStreak >= stats.currentStreak

\* a loss followed by two wins
C6_Witness ==
    stats.totalTrades = 3 /\ stats.currentStreak = 2 /\ stats.maxWinStreak = 2

\* C7: with no trade that is both CLOSED and carries a pnl (the empty collection
\* included), every field of the statistics is 0.
C7_EmptyStats == Counted(trades) = {} => stats = ZeroStats

\* a journal that is not empty and holds nothing to count
C7_Witness ==
    /\ Len(trades) = 2
    /\ \E i, j \in 1..2 :
          /\ trades[i].status = CLOSED /\ trades[i].pnl = Undefined
          /\ trades[j].status = OPEN /\ trades[j].pnl = Some(Rs(100))
    /\ stats = ZeroStats

----------------------------------------------------------------------------
(* Claims about the Position Sizing Calculator, checked under SpecCalc *)

lotSize == INDICES_LOT_SIZES(instrument)
stopDistance == Abs(entryPrice - stopLoss)
\* capital x riskPercent, that is 100 x riskAmount
riskBudget100 == capital * riskPercent

\* floor(riskAmount / stopDistance), for stopDistance > 0
floorOfRisk == riskBudget100 \div (stopDistance * 100)

\* q is the greatest integer with q x stopDistance <= riskAmount
IsFloorOfRisk(q) ==
    /\ q * stopDistance * 100 <= riskBudget100
    /\ riskBudget100 < (q + 1) * stopDistance * 100

\* results.lots and results.qty are what the lot adjustment makes of the raw quantity q
AdjustedFrom(q) ==
    IF lotSize > 1
    THEN /\ results.lots * lotSize <= q
         /\ q < (results.lots + 1) * lotSize
         /\ results.qty = results.lots * lotSize
    ELSE results.lots = q /\ results.qty = q

ZeroResult == results.qty = 0 /\ results.lots = 0 /\ results.totalValue = 0

\* C2: the quantity is a non-negative exact multiple of the lot size and
\* quantity x |entry - stop| <= capital x riskPercent / 100, for every input.
C2_WithinRiskBudget ==
    /\ results.qty >= 0
    /\ results.qty % lotSize = 0
    /\ results.qty * stopDistance * 100 <= riskBudget100

\* C3 as claimed: for entry > 0 and stopDistance > 0, whatever the stop-loss price,
\* the raw quantity is floor(riskAmount / stopDistance) and the reported stop
\* distance is |entry - stop|.
C3_AnyStopLoss ==
    (entryPrice > 0 /\ stopDistance > 0) =>
        /\ results.slPoints = stopDistance
        /\ IsFloorOfRisk(floorOfRisk) /\ AdjustedFrom(floorOfRisk)

\* C3 as amended: the computation needs entry > 0, stop > 0 and stopDistance > 0;
\* every other input gives the zero result with a reported stop distance of 0.
C3_PositiveStopLoss ==
    IF entryPrice > 0 /\ stopLoss > 0 /\ stopDistance > 0
    THEN /\ results.slPoints = stopDistance
         /\ IsFloorOfRisk(floorOfRisk) /\ AdjustedFrom(floorOfRisk)
    ELSE results.slPoints = 0 /\ ZeroResult

\* a computed quantity that the floor rounds down
C3_Witness ==
    /\ entryPrice > 0 /\ stopLoss > 0 /\ stopDistance > 0
    /\ riskBudget100 % (stopDistance * 100) # 0
    /\ results.lots > 0

\* C4: with stopDistance = 0 or entry = 0 the quantity, lots and totalValue are 0.
C4_ZeroInputs == (stopDistance = 0 \/ entryPrice = 0) => ZeroResult

\* entry equals a positive stop, with a positive risk budget
C4_Witness ==
    /\ entryPrice > 0 /\ stopLoss = entryPrice
    /\ riskBudget100 > 0
    /\ ZeroResult

\* C10: lots = floor(raw / lotSize) and quantity = lots x lotSize when the lot size
\* is > 1, lots = quantity = raw when it is 1, totalValue = quantity x entry; and the
\* two worked examples.
C10_LotRounding ==
    LET computed == entryPrice > 0 /\ stopLoss > 0 /\ stopDistance > 0
        raw == IF computed THEN floorOfRisk ELSE 0
    IN  /\ AdjustedFrom(raw)
        /\ results.qty <= raw
        /\ results.totalValue = results.qty * entryPrice
        /\ (capital = 100000 /\ riskPercent = 2 /\ entryPrice = 20000
              /\ stopLoss = 19900) =>
              /\ instrument = "NIFTY" => results.lots = 0 /\ results.qty = 0
              /\ instrument = "EQUITY" =>
                    results.qty = 20 /\ results.totalValue = 400000

\* a lot size above 1 and a raw quantity that is rounded down to whole lots
C10_Witness ==
    /\ lotSize > 1
    /\ results.lots > 0
    /\ entryPrice > 0 /\ stopLoss > 0 /\ stopDistance > 0
    /\ results.qty < floorOfRisk

----------------------------------------------------------------------------
(* Claims about the Calendar Aggregator, checked under SpecCalendar *)

\* the positions of the day cells (not the leading blanks) of the calendar
DayCells == {k \in 1..Len(calendarData.days) : calendarData.days[k].day # Undefined}

ClosedPositions == {i \in 1..Len(trades) : trades[i].status = CLOSED}

\* the closed trades whose entryDate starts with the date string of cell k
CellTrades(k) ==
    {i \in ClosedPositions : StartsWith(trades[i].entryDate, calendarData.days[k].dateStr)}

\* the cells that trade i contributes to: those it is among the trades of
CellsOf(i) == {k \in DayCells : i \in CellTrades(k)}

\* the entry date's own "YYYY-MM-DD" prefix, and the month and day it names
DayPrefix(t) == SubSeq(t.entryDate, 1, 10)
InViewMonth(t) ==
    /\ TwoDigits(t.entryDate, 1) * 100 + TwoDigits(t.entryDate, 3) = calendarData.year
    /\ TwoDigits(t.entryDate, 6) = calendarData.month + 1

\* C8: every CLOSED trade contributes to the day cell whose date string is a prefix
\* of its entryDate and to no other cell; a cell's pnl is the sum of pnl of exactly
\* those trades; a day without such a trade has hasTrades = false and pnl = 0; trades
\* that are not closed affect no cell.
C8_CalendarBuckets ==
    /\ \A k \in DayCells :
          /\ calendarData.days[k].pnl = SumOver(trades, CellTrades(k))
          /\ calendarData.days[k].hasTrades = (CellTrades(k) # {})
          /\ CellTrades(k) = {} =>
                ~calendarData.days[k].hasTrades /\ calendarData.days[k].pnl = 0
    /\ \A i \in ClosedPositions :
          /\ CellsOf(i) = {k \in DayCells : calendarData.days[k].dateStr = DayPrefix(trades[i])}
          /\ Cardinality(CellsOf(i)) <= 1
          /\ InViewMonth(trades[i]) =>
                \E k \in CellsOf(i) :
                    calendarData.days[k].day = Some(TwoDigits(trades[i].entryDate, 9))
    /\ calendarData = CalendarData(SelectSeq(trades, LAMBDA t : t.status = CLOSED),
                                   dailyNotes, currentDateView)

\* January 2024 in view: a closed trade and an open trade with a pnl on the 5th, and
\* a closed trade of 31 December in no cell
C8_Witness ==
    /\ calendarData.year = 2024 /\ calendarData.month = 0
    /\ Len(trades) = 3
    /\ \E i, j, l \in 1..3 :
          /\ trades[i].id = <<"3", "b">> /\ trades[i].status = CLOSED
          /\ trades[i].pnl = Some(Rs(100))
          /\ trades[j].id = <<"a", "1">> /\ trades[j].status = OPEN
          /\ trades[j].pnl = Some(Rs(100))
          /\ trades[l].id = <<"f", "0">> /\ trades[l].status = CLOSED
          /\ trades[l].pnl = Some(Rs(-50))
          /\ CellsOf(l) = {}
    /\ \E k \in DayCells :
          /\ calendarData.days[k].day = Some(5)
          /\ calendarData.days[k].hasTrades
          /\ calendarData.days[k].pnl = Rs(100)

----------------------------------------------------------------------------
(* Claims about the trade form, checked under SpecForm *)

AllSet(f) == IsDefined(f.entryPrice) /\ IsDefined(f.exitPrice) /\ IsDefined(f.quantity)

\* (exit - entry) x quantity for a LONG trade, (entry - exit) x quantity for a SHORT
\* one, in millionths
FormulaPnl(f) ==
    IF f.type = LONG THEN (f.exitPrice[1] - f.entryPrice[1]) * f.quantity[1]
    ELSE (f.entryPrice[1] - f.exitPrice[1]) * f.quantity[1]

\* a step in which handleChange takes a new entry price, exit price or quantity
PriceOrQuantityChanged ==
    /\ formOpen /\ formOpen'
    /\ \E name \in {"entryPrice", "exitPrice", "quantity"} \cap RenderedInputs(formData) :
          \E value \in InputsOf(name) : formData' = HandleChange(formData, name, value)

\* the closed long trade of entry 100, exit 120 and quantity 10
IsScenarioA(t) ==
    /\ t.type = LONG /\ t.status = CLOSED
    /\ t.entryPrice = Rs(100) /\ t.exitPrice = Some(Rs(120)) /\ t.quantity = Rs(10)

ScenarioAStats ==
    /\ stats.netPnL = Rs(200)
    /\ FracEq(stats.winRate, FracInt(100))
    /\ FracEq(stats.avgLoss, FracInt(0))
    /\ FracEq(stats.profitFactor, FracInt(999))

ScenarioAForm ==
    (/\ formData'.type = LONG /\ formData'.entryPrice = Some(Rs(100))
     /\ formData'.exitPrice = Some(Rs(120)) /\ formData'.quantity = Some(Rs(10)))
    => formData'.pnl = Some(Rs(200))

ScenarioAJournal ==
    (Len(trades) = 1 /\ IsScenarioA(trades[1]) /\ trades[1].pnl = Some(Rs(200)))
    => ScenarioAStats

\* C9 as stated: when handleChange has taken an entry price, an exit price or a
\* quantity and all three are set, the form's pnl is exactly (exit - entry) x quantity
\* for a LONG trade and (entry - exit) x quantity for a SHORT trade; the closed long
\* trade entry=100, exit=120, qty=10 gets pnl=200 and, alone in the journal, gives
\* netPnL=200, winRate=100, avgLoss=0, profitFactor=999.
C9_ExactPnl ==
    /\ [][PriceOrQuantityChanged /\ AllSet(formData') =>
            /\ IsDefined(formData'.pnl)
            /\ formData'.pnl[1] * 1000 = FormulaPnl(formData')
            /\ ScenarioAForm]_vars
    /\ [][ScenarioAJournal']_vars

\* C9, amended: the pnl that handleChange computes is that product rounded to two
\* decimals: a whole number of hundredths at most half a hundredth away from it;
\* the rest as stated.
C9_RoundedPnl ==
    /\ [][PriceOrQuantityChanged /\ AllSet(formData') =>
            /\ IsDefined(formData'.pnl)
            /\ formData'.pnl[1] % 10 = 0
            /\ Abs(formData'.pnl[1] * 1000 - FormulaPnl(formData')) <= 5000
            /\ ScenarioAForm]_vars
    /\ [][ScenarioAJournal']_vars

\* the form has computed the pnl of the trade of scenario A and submitted it, and
\* the Dashboard shows its statistics
C9_Witness ==
    /\ ~formOpen
    /\ Len(trades) = 1 /\ IsScenarioA(trades[1])
    /\ trades[1].pnl = Some(Rs(200))
    /\ stats.totalTrades = 1
    /\ ScenarioAStats

----------------------------------------------------------------------------
(* Claims about the AI coach, checked under SpecAI *)

\* C11: analyzeTradeWithAI, for every trade and every outcome of the model call
\* (a text, an empty text, an exception), resolves with a non-empty string, the
\* model's text or a fixed fallback message, and never rejects: every settled call
\* is resolved with such a string, and what handleAnalyzeTrade shows when it is
\* no longer analysing a single call is one of them.
C11_AlwaysResolves ==
    /\ \A k \in 1..Len(aiCalls) :
          aiCalls[k].state # "pending" =>
              /\ aiCalls[k].state = "resolved"
              /\ aiCalls[k].result # ""
              /\ aiCalls[k].result \in {FeedbackText, CouldNotGenerate, ErrorConnecting}
    /\ \A o \in ModelOutcomes :
          /\ AnalyzeTradeWithAI(o).state = "resolved"
          /\ AnalyzeTradeWithAI(o).result # ""
          /\ (o.kind = "response" /\ o.text \notin {Undefined, Some("")})
                => AnalyzeTradeWithAI(o).result = o.text[1]

\* the three kinds of outcome have settled or been shown: a fallback for the
\* exception is on display while a call that got an empty text is settled
C11_Witness ==
    /\ aiModalOpen /\ ~isAnalyzing
    /\ aiAnalysis = ErrorConnecting
    /\ \E k \in 1..Len(aiCalls) :
          aiCalls[k].state = "resolved" /\ aiCalls[k].result = CouldNotGenerate

----------------------------------------------------------------------------
(* More claims about the Statistics Engine, checked under Spec *)

Winners == {i \in Counted(trades) : trades[i].pnl[1] > 0}
Losers == {i \in Counted(trades) : trades[i].pnl[1] <= 0}
\* the sum of the positive pnl and the sum of the absolute values of the others
totalWinAmount == SumOver(trades, Winners)
totalLossAmount == -SumOver(trades, Losers)

\* C13: profitFactor is totalWinAmount / totalLossAmount when totalLossAmount > 0,
\* the sentinel 999 when totalLossAmount is 0 and totalWinAmount > 0, and 0 when
\* both are 0, over the trades that are CLOSED and carry a pnl.
C13_ProfitFactor ==
    /\ totalLossAmount > 0 =>
          stats.profitFactor = Frac(totalWinAmount, totalLossAmount)
    /\ (totalLossAmount = 0 /\ totalWinAmount > 0) =>
          FracEq(stats.profitFactor, FracInt(999))
    /\ (totalLossAmount = 0 /\ totalWinAmount = 0) =>
          FracEq(stats.profitFactor, FracInt(0))
    /\ stats.profitFactor.den > 0

\* two wins and nothing lost (a closed trade of pnl 0 among them): the sentinel
C13_Witness ==
    /\ Cardinality(Winners) = 2 /\ Cardinality(Losers) = 1
    /\ totalLossAmount = 0
    /\ FracEq(stats.profitFactor, FracInt(999))

\* the collection with the pnl of trade i set to p, and without trade i
WithPnl(ts, i, p) == [ts EXCEPT ![i].pnl = Some(p)]
Without(ts, i) == SubSeq(ts, 1, i - 1) \o SubSeq(ts, i + 1, Len(ts))
ZeroPnl == {i \in Counted(trades) : trades[i].pnl[1] = 0}

\* C14: a closed trade whose pnl is exactly 0 is counted in totalTrades and is a
\* loss: winRate, the number of losses that avgLoss divides by and both streaks are
\* what they are when the trade loses a thousandth instead; winRate is below what
\* it is when the trade wins; when it is the last trade currentStreak is negative.
C14_ZeroIsLoss ==
    \A i \in ZeroPnl :
        LET asLoss == DashboardStats(WithPnl(trades, i, -1))
            asWin  == DashboardStats(WithPnl(trades, i, 1))
            sorted == ClosedTrades(trades)
        IN  /\ stats.totalTrades = DashboardStats(Without(trades, i)).totalTrades + 1
            /\ stats.totalTrades = Cardinality(Counted(trades))
            /\ FracEq(stats.winRate, asLoss.winRate)
            /\ ~FracLeq(asWin.winRate, stats.winRate)
            /\ stats.avgLoss.den = Cardinality(Losers)
            /\ stats.avgLoss.den = asLoss.avgLoss.den
            /\ stats.maxWinStreak = asLoss.maxWinStreak
            /\ stats.currentStreak = asLoss.currentStreak
            /\ sorted[Len(sorted)].id = trades[i].id => stats.currentStreak < 0

\* a win on 5 January, then a trade of pnl 0 on 20 January
C14_Witness ==
    /\ Len(trades) = 2
    /\ \E i, j \in 1..2 :
          /\ trades[i].id = <<"3", "b">> /\ trades[i].status = CLOSED
          /\ trades[i].pnl = Some(Rs(100))
          /\ trades[j].id = <<"3", "a">> /\ trades[j].status = CLOSED
          /\ trades[j].pnl = Some(0)
    /\ stats.totalTrades = 2
    /\ FracEq(stats.winRate, FracInt(50))
    /\ stats.maxWinStreak = 1 /\ stats.currentStreak = -1

\* a before b in entry timestamp, then in id
Earlier(a, b) ==
    \/ GetTime(a.entryDate) < GetTime(b.entryDate)
    \/ GetTime(a.entryDate) = GetTime(b.entryDate) /\ LocaleCompare(a.id, b.id) < 0

\* the counted trades in that order
Chronological ==
    LET counted == SelectSeq(trades, LAMBDA t : t.status = CLOSED /\ IsDefined(t.pnl))
    IN  CHOOSE s \in Reorderings(counted) :
            \A i \in 1..(Len(s) - 1) : Earlier(s[i], s[i + 1])

Won(t) == t.pnl[1] > 0
MaxOf(S) == CHOOSE m \in S : \A x \in S : x <= m
\* the length of the longest run of equal outcomes that ends at the last trade
LastRun(s) ==
    MaxOf({0} \cup {k \in 1..Len(s) :
                      \A j \in (Len(s) - k + 1)..Len(s) : Won(s[j]) = Won(s[Len(s)])})
\* the length of the longest run of wins
LongestWinRun(s) ==
    MaxOf({0} \cup {k \in 1..Len(s) :
                      \E a \in 1..(Len(s) - k + 1) : \A j \in a..(a + k - 1) : Won(s[j])})

\* the journal of scenario B: pnl -50, 100, -30 in chronological order
ScenarioB ==
    <<JournalTrade(<<"f", "0">>, [status |-> CLOSED, pnl |-> Some(Rs(-50))]),
      JournalTrade(<<"3", "b">>, [status |-> CLOSED, pnl |-> Some(Rs(100))]),
      JournalTrade(<<"3", "a">>, [status |-> CLOSED, pnl |-> Some(Rs(-30))])>>

\* C15: over the counted trades in order of entry timestamp, then id, the absolute
\* value of currentStreak is the length of the run of equal outcomes ending at the
\* last trade, currentStreak is positive iff the last trade is a win and negative
\* iff it is a loss, and maxWinStreak is the length of the longest run of wins;
\* pnl -50, 100, -30 gives currentStreak = -1 and maxWinStreak = 1.
C15_Streaks ==
    LET s == Chronological
    IN  /\ Abs(stats.currentStreak) = LastRun(s)
        /\ s # <<>> => /\ stats.currentStreak > 0 <=> Won(s[Len(s)])
                       /\ stats.currentStreak < 0 <=> ~Won(s[Len(s)])
        /\ stats.maxWinStreak = LongestWinRun(s)
        /\ \A p \in Reorderings(ScenarioB) :
              /\ DashboardStats(p).currentStreak = -1
              /\ DashboardStats(p).maxWinStreak = 1

\* a loss, a win and a loss in chronological order, entered in another order
C15_Witness ==
    /\ Len(Chronological) = 3
    /\ ~Won(Chronological[1]) /\ Won(Chronological[2]) /\ ~Won(Chronological[3])
    /\ trades # Chronological
    /\ stats.currentStreak = -1 /\ stats.maxWinStreak = 1

\* C16: with pairwise distinct ids, every field of the statistics is the same for
\* every permutation of the collection, also when trades share an entry timestamp.
C16_OrderIndependent ==
    \A p \in Reorderings(trades) : DashboardStats(p) = stats

\* a win and a loss with the same entry timestamp, and a later win
C16_Witness ==
    /\ Len(trades) = 3
    /\ \E i, j, k \in 1..3 :
          /\ trades[i].id = <<"3", "b">> /\ trades[j].id = <<"a", "1">>
          /\ trades[k].id = <<"3", "a">>
          /\ GetTime(trades[i].entryDate) = GetTime(trades[j].entryDate)
          /\ trades[i].status = CLOSED /\ trades[i].pnl = Some(Rs(-50))
          /\ trades[j].status = CLOSED /\ trades[j].pnl = Some(Rs(100))
          /\ trades[k].status = CLOSED /\ trades[k].pnl = Some(Rs(100))
    /\ stats.currentStreak = 2

----------------------------------------------------------------------------
(* Claims about the charts of the Dashboard, checked under SpecCharts *)

ClosedOf(ts) == SelectSeq(ts, LAMBDA t : t.status = CLOSED)

\* C17: the equity curve has one point per trade with status CLOSED, in ascending
\* order of entry timestamp, the equity of the i-th point being the sum of pnl (an
\* absent pnl counting as 0) of the first i trades in that order; computing it again
\* on the same collection gives the same series.
C17_EquityCurve ==
    /\ Len(equityCurveData) = Len(ClosedOf(trades))
    /\ \E s \in Reorderings(ClosedOf(trades)) :
          /\ \A i \in 1..(Len(s) - 1) :
                GetTime(s[i].entryDate) <= GetTime(s[i + 1].entryDate)
          /\ \A i \in 1..Len(s) :
                /\ equityCurveData[i].pnl = s[i].pnl
                /\ equityCurveData[i].equity = SumOver(s, 1..i)
    /\ equityCurveData = EquityCurveData(trades, tzOffset)

\* three closed trades, the newest first in the collection and the middle one
\* without a pnl: the curve runs 100, 100, 60
C17_Witness ==
    /\ Len(trades) = 3
    /\ GetTime(trades[1].entryDate) > GetTime(trades[3].entryDate)
    /\ Len(equityCurveData) = 3
    /\ equityCurveData[1].equity = Rs(100)
    /\ equityCurveData[2].pnl = Undefined /\ equityCurveData[2].equity = Rs(100)
    /\ equityCurveData[3].pnl = Some(Rs(-40)) /\ equityCurveData[3].equity = Rs(60)

\* the months, as written in the entry dates, that hold a closed trade
MonthOf(t) == <<WrittenDate(t.entryDate).year, WrittenDate(t.entryDate).month>>
ClosedMonths == {MonthOf(ClosedOf(trades)[i]) : i \in 1..Len(ClosedOf(trades))}
MonthRank(ym) ==
    Cardinality({x \in ClosedMonths : x[1] * 12 + x[2] <= ym[1] * 12 + ym[2]})
MonthSum(ym) ==
    SumOver(ClosedOf(trades),
            {i \in 1..Len(ClosedOf(trades)) : MonthOf(ClosedOf(trades)[i]) = ym})

\* trades dated 2024-01-05 (pnl 100) and 2024-01-20 (pnl -40)
JanuaryExample ==
    <<JournalTrade(<<"3", "a">>, [status |-> CLOSED, pnl |-> Some(Rs(-40))]),
      JournalTrade(<<"3", "b">>, [status |-> CLOSED, pnl |-> Some(Rs(100))])>>

\* C18: the monthly aggregation has one bucket per (year, month) that holds a
\* CLOSED trade, the pnl of a bucket is the sum of pnl of the closed trades whose
\* entry date falls in that month, and the buckets are in ascending chronological
\* order whatever the order of the collection; trades dated 2024-01-05 (pnl 100)
\* and 2024-01-20 (pnl -40) give one bucket of pnl 60.
C18_MonthlyBuckets ==
    /\ Len(monthlyChartData) = Cardinality(ClosedMonths)
    /\ \A ym \in ClosedMonths :
          /\ MonthRank(ym) <= Len(monthlyChartData)
          /\ monthlyChartData[MonthRank(ym)].name = MonthLabel(ym[1], ym[2])
          /\ monthlyChartData[MonthRank(ym)].pnl = MonthSum(ym)
    /\ \A tz \in TimeZones : \A p \in Reorderings(JanuaryExample) :
          MonthlyChartData(p, tz) = <<[name |-> MonthLabel(2024, 1), pnl |-> Rs(60)]>>

----------------------------------------------------------------------------
(* Claims about the submitted trade, checked under SpecForm, where every   *)
(* trade of the journal was submitted by the form                          *)

\* C19: a trade that the form submits, after any sequence of field changes, status
\* changes, side changes and clearings of the pnl, carries a realized pnl only when
\* its status is CLOSED.
C19_PnlOnlyWhenClosed ==
    \A i \in 1..Len(trades) :
        trades[i].status # CLOSED => trades[i].pnl = Undefined

----------------------------------------------------------------------------
(* Claims about the persistence of the journal, checked under SpecApp *)

\* C12: when supabase.auth.getUser() answers no user, saveTradeToDb and
\* saveDailyNoteToDb are rejected with the error "No user logged in", they send no
\* upsert, and the step leaves the tables of the store as they were.
C12_NoUserNoUpsert ==
    /\ [][\A i \in 1..Len(dbCalls) :
             (/\ Len(dbCalls') = Len(dbCalls)
              /\ dbCalls[i].pc = "getUser"
              /\ dbCalls'[i] # dbCalls[i]
              /\ authUser = Undefined)
             => /\ dbCalls'[i].pc = "rejected"
                /\ dbCalls'[i].error = NoUserLoggedIn
                /\ dbCalls'[i].upserts = 0
                /\ dbTrades' = dbTrades
                /\ dbNotes' = dbNotes]_vars
    /\ [][\A i \in 1..Len(dbCalls') :
             dbCalls'[i].error = NoUserLoggedIn
             => dbCalls'[i].pc = "rejected" /\ dbCalls'[i].upserts = 0]_vars

\* a save that was under way when the session ended is rejected, the store
\* holding a trade and a note
C12_Witness ==
    /\ authUser = Undefined
    /\ dbTrades # <<>> /\ dbNotes # <<>>
    /\ \E i \in 1..Len(dbCalls) :
          /\ dbCalls[i].fn = "saveTradeToDb"
          /\ dbCalls[i].pc = "rejected"
          /\ dbCalls[i].error = NoUserLoggedIn

\* the step of handleSaveTrade to its await: a call of saveTradeToDb begins
SaveTradeBegins ==
    /\ Len(dbCalls') = Len(dbCalls) + 1
    /\ dbCalls'[Len(dbCalls')].fn = "saveTradeToDb"
OthersOf(ts, id) == SelectSeq(ts, LAMBDA t : t.id # id)

\* C20: right after the optimistic update of handleSaveTrade the collection holds
\* the submitted trade exactly once under its id, prepended when a trade is created
\* and in the place of the previous record when one is edited, and the trades with
\* another id are unchanged, also when a reload changed the collection while the
\* edit form was open.
C20_OptimisticUpdate ==
    [][SaveTradeBegins =>
         LET trade == dbCalls'[Len(dbCalls')].arg
         IN  /\ Cardinality({i \in 1..Len(trades') : trades'[i].id = trade.id}) = 1
             /\ \A i \in 1..Len(trades') : trades'[i].id = trade.id => trades'[i] = trade
             /\ editingTrade = Undefined => trades' = <<trade>> \o trades
             /\ editingTrade # Undefined => Len(trades') = Len(trades)
             /\ OthersOf(trades', trade.id) = OthersOf(trades, trade.id)]_vars

----------------------------------------------------------------------------
(* Claims that relate the charts to the Statistics Engine, under SpecCharts *)

RECURSIVE SumBuckets(_)
SumBuckets(buckets) ==
    IF buckets = <<>> THEN 0 ELSE buckets[1].pnl + SumBuckets(Tail(buckets))

\* C30: for a collection with at least one CLOSED trade, the equity of the last
\* point of the equity curve equals netPnL of the statistics, and so does the sum
\* of pnl over the monthly buckets, the closed trades without a pnl counting as 0
\* in the charts and being left out of the statistics.
C30_ChartsMatchNetPnL ==
    Len(ClosedOf(trades)) >= 1 =>
        /\ equityCurveData[Len(equityCurveData)].equity = stats.netPnL
        /\ SumBuckets(monthlyChartData) = stats.netPnL

\* closed trades in two months, one of them without a pnl, and a net of 60
C30_Witness ==
    /\ Len(ClosedOf(trades)) = 3
    /\ \E i \in 1..3 : ClosedOf(trades)[i].pnl = Undefined
    /\ Len(monthlyChartData) = 2
    /\ stats.netPnL = Rs(60)
    /\ stats.totalTrades = 2

----------------------------------------------------------------------------
(* Claims about the navigation of the calendar, checked under SpecCalendar *)

\* the (year, month) that a step of delta months from the view is to reach
MonthAfter(view, delta) ==
    IF delta = 1 /\ view.month = 11 THEN <<view.year + 1, 0>>
    ELSE IF delta = -1 /\ view.month = 0 THEN <<view.year - 1, 11>>
    ELSE <<view.year, view.month + delta>>

\* C24: changeMonth(+1) and changeMonth(-1) land on a valid (year, month): December
\* goes to January of the next year, January back to December of the year before,
\* otherwise only the month changes by one; a step followed by the opposite step
\* returns to the same (year, month), whatever the day of the view.
C24_MonthRollover ==
    /\ calendarData.year = currentDateView.year
    /\ calendarData.month = currentDateView.month
    /\ \A delta \in {-1, 1} :
          LET there == ChangeMonth(currentDateView, delta)
              back  == ChangeMonth(there, -delta)
          IN  /\ there.month \in 0..11
              /\ <<there.year, there.month>> = MonthAfter(currentDateView, delta)
              /\ <<back.year, back.month>> = <<currentDateView.year, currentDateView.month>>

\* the view went back from January 2024 to December 2023
C24_Witness ==
    /\ currentDateView = [year |-> 2023, month |-> 11, date |-> 1]
    /\ calendarData.year = 2023 /\ calendarData.month = 11

----------------------------------------------------------------------------
(* Claims about the side of the trade in the form, checked under SpecForm *)

\* the pnl of the form is the product for its side, to the two decimals that
\* handleChange keeps
ConsistentPnl(f) ==
    /\ IsDefined(f.pnl)
    /\ f.pnl[1] % 10 = 0
    /\ Abs(f.pnl[1] * 1000 - FormulaPnl(f)) <= 5000

\* a step of the open form that changes the side or the quantity and leaves the
\* prices and the pnl's input alone
SideOrQuantityChanged ==
    /\ formOpen /\ formOpen'
    /\ formData'.type # formData.type \/ formData'.quantity # formData.quantity
    /\ formData'.entryPrice = formData.entryPrice
    /\ formData'.exitPrice = formData.exitPrice

\* C28: when entry price, exit price and quantity are set and the pnl is the computed
\* one, the pnl stays consistent with the selected side after the side is switched
\* with the Buy and Sell buttons or the quantity is changed by an index button:
\* (exit - entry) x quantity for LONG, (entry - exit) x quantity for SHORT.
C28_PnlFollowsSide ==
    [][(/\ SideOrQuantityChanged
        /\ AllSet(formData) /\ ConsistentPnl(formData)
        /\ AllSet(formData'))
       => ConsistentPnl(formData')]_vars

----------------------------------------------------------------------------
(* Claims about the AI Analysis Modal, checked under SpecAI; aiCalls holds  *)
(* the awaited calls in the order of their requests                        *)

\* a step in which handleAnalyzeTrade takes the result of an awaited call and shows it
AnalysisShown ==
    /\ Len(aiCalls') = Len(aiCalls) - 1
    /\ aiModalOpen' /\ ~isAnalyzing'

\* C27: when the modal is open and isAnalyzing is false, the text on display is the
\* result for the trade requested last; a result of an earlier call that was
\* pending when the modal was closed and a second analysis requested is never shown
\* for the second trade, isAnalyzing staying true until the second call resolves:
\* the call whose result is shown is the last of the awaited calls.
C27_LatestAnalysisShown ==
    [][AnalysisShown =>
          /\ aiCalls' = RemoveAt(aiCalls, Len(aiCalls))
          /\ aiAnalysis' = aiCalls[Len(aiCalls)].result]_vars

----------------------------------------------------------------------------
(* Claims about saving and listing a trade, checked under SpecRoundTrip *)

SameOptionals(listed, saved) ==
    /\ listed.pnl = saved.pnl
    /\ listed.exitPrice = saved.exitPrice
    /\ listed.stopLoss = saved.stopLoss
    /\ listed.takeProfit = saved.takeProfit

\* a reload lists the store, which holds the row of the trade that the collection
\* still holds as it was submitted
SavedTradeListed ==
    /\ dbTrades' = dbTrades /\ Len(dbTrades) = 1
    /\ Len(trades) = 1 /\ trades[1].id = dbTrades[1].id
    /\ dbCalls = <<>>
    /\ trades' = FetchTrades(serviceCopy, dbTrades, authUser)

\* C29: a trade that was saved to the store is listed with the same presence and
\* value of pnl, exitPrice, stopLoss and takeProfit; a closed trade saved with a pnl
\* of 0 is listed with pnl = 0, so that the Statistics Engine still counts it, as a
\* loss, after the reload.
C29_SaveThenList ==
    [][SavedTradeListed =>
          /\ Len(trades') = 1
          /\ SameOptionals(trades'[1], trades[1])
          /\ trades[1].pnl = Some(0) =>
                /\ trades'[1].pnl = Some(0)
                /\ stats'.totalTrades = 1
                /\ stats'.winRate = FracInt(0)]_vars

----------------------------------------------------------------------------
(* Claims about deleting a trade, checked under SpecApp *)

\* the step of handleDeleteTrade to its await: a call of deleteTradeFromDb begins
DeleteBegins ==
    /\ Len(dbCalls') = Len(dbCalls) + 1
    /\ dbCalls'[Len(dbCalls')].fn = "deleteTradeFromDb"

\* the store answers a call of deleteTradeFromDb
DeleteAnswered(i) ==
    /\ Len(dbCalls') = Len(dbCalls)
    /\ dbCalls[i].pc = "delete"
    /\ dbCalls'[i] # dbCalls[i]

\* C22: handleDeleteTrade, when the user confirms, removes from the collection
\* exactly the trades with the given id, the others staying as they are and in their
\* order, and only then sends one delete for that id to the store; when the user
\* does not confirm, the collection and the store are unchanged and no call is made.
C22_DeleteTrade ==
    /\ [][DeleteBegins =>
             LET call == dbCalls'[Len(dbCalls')]
             IN  /\ SubSeq(dbCalls', 1, Len(dbCalls)) = dbCalls
                 /\ call.arg \in IdsOf(trades)
                 /\ call.arg \notin IdsOf(trades')
                 /\ trades' = OthersOf(trades, call.arg)
                 /\ call.pc = "delete" /\ call.deletes = 0
                 /\ dbTrades' = dbTrades]_vars
    /\ [][\A i \in 1..Len(dbCalls) :
             DeleteAnswered(i) =>
                /\ dbCalls'[i].deletes = 1
                /\ dbCalls'[i].pc \in {"resolved", "rejected"}
                /\ dbCalls'[i].pc = "rejected" => dbTrades' = dbTrades
                /\ (dbCalls'[i].pc = "resolved" /\ authUser # Undefined) =>
                      dbCalls[i].arg \notin {dbTrades'[k].id : k \in 1..Len(dbTrades')}
                /\ SelectSeq(dbTrades', LAMBDA r : r.id # dbCalls[i].arg)
                      = SelectSeq(dbTrades, LAMBDA r : r.id # dbCalls[i].arg)]_vars
    /\ [][\A id \in IdsOf(trades') :
             AfterDeleteTrade(trades', dbCalls', id, FALSE)
                = [trades |-> trades', calls |-> dbCalls']]_vars

\* a trade of a journal of two was deleted: it is gone from the collection, the
\* other one is left, and the delete has not reached the store yet
C22_Witness ==
    /\ Len(trades) = 1
    /\ Len(dbTrades) = 2
    /\ \E i \in 1..Len(dbCalls) :
          /\ dbCalls[i].fn = "deleteTradeFromDb"
          /\ dbCalls[i].pc = "delete"
          /\ dbCalls[i].arg \notin IdsOf(trades)
          /\ dbCalls[i].arg \in {dbTrades[k].id : k \in 1..Len(dbTrades)}

----------------------------------------------------------------------------
(* Claims about a failed remote call, checked under SpecApp *)

\* the catch of a handler has run for a rejected call: its handling is finished
FailureHandled ==
    /\ Len(dbCalls') = Len(dbCalls) - 1
    /\ \E i \in 1..Len(dbCalls) :
          dbCalls[i].pc = "rejected" /\ dbCalls' = RemoveAt(dbCalls, i)

\* C21: when the remote call of a save or a delete fails, the optimistic change is
\* reverted: once the handling of the failure has finished, the trades and the notes
\* of the App are those of the store, whatever the outcome of the reload.
C21_RevertedOnFailure ==
    [][FailureHandled =>
          /\ trades' = FetchTrades(serviceCopy, dbTrades', authUser')
          /\ dailyNotes' = FetchDailyNotes(dbNotes', authUser')]_vars

----------------------------------------------------------------------------
(* Claims about the daily notes, checked under SpecNotes *)

\* the step of handleSaveNote to its await: a call of saveDailyNoteToDb begins
NoteSaveBegins ==
    /\ Len(dbCalls') = Len(dbCalls) + 1
    /\ dbCalls'[Len(dbCalls')].fn = "saveDailyNoteToDb"
NotesOfOtherDates(notes, date) == SelectSeq(notes, LAMBDA n : n.date # date)

\* C23: after any sequence of handleSaveNote calls and successful reloads the notes
\* of the App hold at most one note per date; a save for a date leaves exactly one
\* note with that date, the submitted one, and leaves the notes of every other date
\* unchanged.
C23_OneNotePerDate ==
    /\ [][\A i, j \in 1..Len(dailyNotes') :
             dailyNotes'[i].date = dailyNotes'[j].date => i = j]_vars
    /\ [][NoteSaveBegins =>
             LET note == dbCalls'[Len(dbCalls')].arg
             IN  /\ Cardinality({i \in 1..Len(dailyNotes') :
                                    dailyNotes'[i].date = note.date}) = 1
                 /\ \A i \in 1..Len(dailyNotes') :
                       dailyNotes'[i].date = note.date => dailyNotes'[i] = note
                 /\ NotesOfOtherDates(dailyNotes', note.date)
                       = NotesOfOtherDates(dailyNotes, note.date)]_vars

\* notes for two dates, one of them rewritten since the store took it
C23_Witness ==
    /\ Len(dailyNotes) = 2
    /\ \E i \in 1..Len(dailyNotes) : \E j \in 1..Len(dbNotes) :
          /\ dailyNotes[i].date = dbNotes[j].date
          /\ dailyNotes[i].content # dbNotes[j].content

----------------------------------------------------------------------------
(* Claims about the reloads, checked under SpecReload *)

AllLoadsSettled == \A i \in 1..Len(dbCalls) : dbCalls[i].pc # "pending"
\* the reload that was called last, which has read the newest snapshot
NewestLoad == LoadsOf(dbCalls)[Len(LoadsOf(dbCalls))]

\* C25: once all the reloads in flight have resolved, with no user action and no
\* store change since the newest of them read the store, the trades and the notes
\* of the App are the contents of the store: a reload that read an older snapshot
\* never overwrites the result of one that read a newer snapshot.
C25_NewestReloadWins ==
    (/\ authUser # Undefined
     /\ LoadsOf(dbCalls) # <<>>
     /\ AllLoadsSettled
     /\ NewestLoad.pc = "fulfilled"
     /\ NewestLoad.arg = StoreView(authUser))
    => /\ trades = StoreView(authUser).trades
       /\ dailyNotes = StoreView(authUser).notes

\* C26: in every state in which no user is signed in, the trades and the notes of
\* the App are empty, also when a loadData() that was called before the session
\* ended settles after it.
C26_EmptyWithoutUser ==
    authUser = Undefined => (trades = <<>> /\ dailyNotes = <<>>)

====
